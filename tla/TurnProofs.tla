----------------------------- MODULE TurnProofs -----------------------------
(***************************************************************************)
(* Proofs about a turn for every set of batches, limit and bound: the      *)
(* inductive invariant; the types of what the actions build and the        *)
(* protocol of a transcript; one lemma for each conjunct of the invariant, *)
(* with one step for each action of the Core, the driver and the handle.   *)
(* The theorems follow each group of lemmas.                               *)
(***************************************************************************)
EXTENDS TurnProperties, TLAPS

(***************************************************************************)
(* What the control points say about the open batch, the pause and the     *)
(* outcome.  Together with TypeOK and PauseCoherence this is inductive.    *)
(***************************************************************************)
CallPoints   == {"executing", "reexecuting", "finish", "finishUnknown"}
BatchPoints  == CallPoints \cup {"batch", "yield"}
ClosedPoints == {"idle", "created", "terminal", "cleanup", "done"}
CallPauses   == {"input", "permission", "plan"}

BatchShape ==
    /\ pc \in BatchPoints => InBatch
    /\ pc \in AttemptPoints => ~InBatch
    /\ pc \in ClosedPoints => cont = NoCont
    /\ pc \in CallPoints => Current <= Calls
    /\ cont.pause \in CallPauses => InBatch /\ Current <= Calls

HistoryShape == messages # <<>> /\ (InBatch => Len(tools) = Calls)

DriverShape ==
    /\ pc = "segment" => cancelled
    /\ pc = "paused" => cont.pause # NoPause
    /\ pc # "waiting" => waiter = "none" /\ pendingPause = NoPause
    /\ waiter = "cancelled" => cancelled
    /\ waiter = "applied" /\ ~cancelled => cont.pause = NoPause

OutcomeShape ==
    /\ pc \in {"terminal", "cleanup"} => status # "running"
    /\ status = "completed" => ~cancelled /\ pc \in {"terminal", "done"}
    /\ result # "none" => pc = "done"

ControlInv == PauseCoherence /\ BatchShape /\ DriverShape /\ OutcomeShape

Shape == TypeOK /\ ControlInv /\ HistoryShape

FlagsAndCounters == FlagTypes /\ CounterTypes
PausesAndOutcome == PauseCoherence /\ OutcomeShape

(***************************************************************************)
(* Types of the values the actions build.                                  *)
(***************************************************************************)
\* The empty continuation, batch and permit are well typed.
LEMMA NoneTyped ==
    /\ NoCont \in Continuation
    /\ NoBatch \in Batch /\ NoBatch.next <= Len(NoBatch.calls)
    /\ NoPermit \in Permit
  BY DEF NoCont, NoBatch, NoPermit, NoPause, Continuation, Batch, Permit,
         Stages, Callers, Choices

\* Counting an event of a call gives a call history.
LEMMA CallCounted ==
    ASSUME NEW h \in CallHistory
    PROVE  /\ [h EXCEPT !.started = h.started + 1] \in CallHistory
           /\ [h EXCEPT !.finished = h.finished + 1] \in CallHistory
           /\ [h EXCEPT !.runs = h.runs + 1] \in CallHistory
           /\ [h EXCEPT !.grants = h.grants + 1] \in CallHistory
<1>1. [h EXCEPT !.started = h.started + 1] \in CallHistory
  BY DEF CallHistory
<1>2. [h EXCEPT !.finished = h.finished + 1] \in CallHistory
  BY DEF CallHistory
<1>3. [h EXCEPT !.runs = h.runs + 1] \in CallHistory
  BY DEF CallHistory
<1>4. [h EXCEPT !.grants = h.grants + 1] \in CallHistory
  BY DEF CallHistory
<1> QED BY <1>1, <1>2, <1>3, <1>4

\* Replacing an element of a sequence keeps its type and length.
LEMMA UpdateTyped ==
    ASSUME NEW S, NEW s \in Seq(S), NEW i \in 1..Len(s), NEW e \in S
    PROVE  /\ [s EXCEPT ![i] = e] \in Seq(S)
           /\ Len([s EXCEPT ![i] = e]) = Len(s)
           /\ s[i] \in S
  OBVIOUS

\* The event recorders of a call (ToolStarted, ToolFinished, a grant, a run)
\* keep the type and the number of the calls of the batch.
LEMMA HistoryTyped ==
    ASSUME NEW ts \in Seq(CallHistory), NEW i \in 1..Len(ts)
    PROVE  /\ ToolStarted(ts, i) \in Seq(CallHistory)
           /\ ToolFinished(ts, i) \in Seq(CallHistory)
           /\ Granted(ts, i) \in Seq(CallHistory)
           /\ Ran(ts, i) \in Seq(CallHistory)
           /\ Rerun(ts, i) \in Seq(CallHistory)
           /\ Len(ToolStarted(ts, i)) = Len(ts)
           /\ Len(ToolFinished(ts, i)) = Len(ts)
           /\ Len(Granted(ts, i)) = Len(ts)
           /\ Len(Ran(ts, i)) = Len(ts)
           /\ Len(Rerun(ts, i)) = Len(ts)
<1> DEFINE h == ts[i]
<1>1. h \in CallHistory
  BY UpdateTyped
<1>2. ToolStarted(ts, i) = [ts EXCEPT ![i] = [h EXCEPT !.started = h.started + 1]]
  BY DEF ToolStarted
<1>3. ToolFinished(ts, i) = [ts EXCEPT ![i] = [h EXCEPT !.finished = h.finished + 1]]
  BY DEF ToolFinished
<1>4. Granted(ts, i) = [ts EXCEPT ![i] = [h EXCEPT !.grants = h.grants + 1]]
  BY DEF Granted
<1>5. Ran(ts, i) = [ts EXCEPT ![i] = [h EXCEPT !.runs = h.runs + 1]]
  BY DEF Ran
<1>6. /\ [h EXCEPT !.started = h.started + 1] \in CallHistory
      /\ [h EXCEPT !.finished = h.finished + 1] \in CallHistory
      /\ [h EXCEPT !.grants = h.grants + 1] \in CallHistory
      /\ [h EXCEPT !.runs = h.runs + 1] \in CallHistory
  BY <1>1, CallCounted
<1>7. ASSUME NEW e \in CallHistory
      PROVE  /\ [ts EXCEPT ![i] = e] \in Seq(CallHistory)
             /\ Len([ts EXCEPT ![i] = e]) = Len(ts)
  BY UpdateTyped
<1> HIDE DEF h
<1>8. /\ ToolStarted(ts, i) \in Seq(CallHistory)
      /\ Len(ToolStarted(ts, i)) = Len(ts)
  BY <1>2, <1>6, <1>7
<1>9. /\ ToolFinished(ts, i) \in Seq(CallHistory)
      /\ Len(ToolFinished(ts, i)) = Len(ts)
  BY <1>3, <1>6, <1>7
<1>10. /\ Granted(ts, i) \in Seq(CallHistory)
       /\ Len(Granted(ts, i)) = Len(ts)
  BY <1>4, <1>6, <1>7
<1>11. /\ Ran(ts, i) \in Seq(CallHistory)
       /\ Len(Ran(ts, i)) = Len(ts)
  BY <1>5, <1>6, <1>7
<1> QED BY <1>8, <1>9, <1>10, <1>11 DEF Rerun

\* Closing the rest of a batch keeps the type and the number of its calls.
LEMMA CloseTailTyped ==
    ASSUME NEW ts \in Seq(CallHistory), NEW i, NEW started
    PROVE  /\ CloseTail(ts, i, started) \in Seq(CallHistory)
           /\ Len(CloseTail(ts, i, started)) = Len(ts)
<1> DEFINE c(j) == [ts[j] EXCEPT
                       !.started = IF j = i /\ started THEN ts[j].started
                                   ELSE ts[j].started + 1,
                       !.finished = ts[j].finished + 1]
<1>1. ASSUME NEW h \in CallHistory
      PROVE  /\ [h EXCEPT !.started = h.started, !.finished = h.finished + 1]
                    \in CallHistory
             /\ [h EXCEPT !.started = h.started + 1, !.finished = h.finished + 1]
                    \in CallHistory
  <2>1. ASSUME NEW m \in Nat, NEW n \in Nat
        PROVE  [h EXCEPT !.started = m, !.finished = n] \in CallHistory
    BY DEF CallHistory
  <2>2. h.started \in Nat /\ h.finished \in Nat
    BY DEF CallHistory
  <2>3. h.started + 1 \in Nat /\ h.finished + 1 \in Nat
    BY <2>2
  <2> QED BY <2>1, <2>2, <2>3
<1>2. ASSUME NEW j \in 1..Len(ts) PROVE c(j) \in CallHistory
  <2>1. ts[j] \in CallHistory
    OBVIOUS
  <2>2. CASE j = i /\ started
    BY <1>1, <2>1, <2>2
  <2>3. CASE ~(j = i /\ started)
    BY <1>1, <2>1, <2>3
  <2> QED BY <2>2, <2>3
<1>3. CloseTail(ts, i, started) = [j \in 1..Len(ts) |-> IF j < i THEN ts[j] ELSE c(j)]
  BY DEF CloseTail
<1> HIDE DEF c
<1>4. ASSUME NEW j \in 1..Len(ts)
      PROVE  (IF j < i THEN ts[j] ELSE c(j)) \in CallHistory
  BY <1>2, UpdateTyped
<1> QED BY <1>3, <1>4

\* What the Core appends to the transcript is a message, and leaves it non-empty.
LEMMA MessagesTyped ==
    ASSUME NEW m \in Seq(Messages), NEW n \in Nat
    PROVE  /\ Append(m, User) \in Seq(Messages) \ {<<>>}
           /\ Append(m, Assistant(n)) \in Seq(Messages) \ {<<>>}
           /\ Append(m, ToolResult(n)) \in Seq(Messages) \ {<<>>}
           /\ Append(Append(m, ToolResult(n)), User)
                 \in Seq(Messages) \ {<<>>}
           /\ m \o <<ToolResult(n), User>> \in Seq(Messages) \ {<<>>}
<1>1. /\ User \in Messages /\ Assistant(n) \in Messages
      /\ ToolResult(n) \in Messages
  BY DEF User, Assistant, ToolResult, Messages
<1>2. ASSUME NEW q \in Seq(Messages), NEW x \in Messages
      PROVE  Append(q, x) \in Seq(Messages) \ {<<>>}
  OBVIOUS
<1>3. m \o <<ToolResult(n), User>> \in Seq(Messages) \ {<<>>}
  BY <1>1
<1> QED BY <1>1, <1>2, <1>3

\* Counting a request keeps the budget well typed.
LEMMA BudgetTyped ==
    ASSUME NEW u \in Budget
    PROVE  /\ [u EXCEPT !.steers = u.steers + 1] \in Budget
           /\ [u EXCEPT !.pauses = u.pauses + 1] \in Budget
           /\ [u EXCEPT !.retries = u.retries + 1] \in Budget
           /\ [u EXCEPT !.redirects = u.redirects + 1] \in Budget
           /\ [u EXCEPT !.shutdowns = u.shutdowns + 1] \in Budget
<1>1. [u EXCEPT !.steers = u.steers + 1] \in Budget
  BY DEF Budget
<1>2. [u EXCEPT !.pauses = u.pauses + 1] \in Budget
  BY DEF Budget
<1>3. [u EXCEPT !.retries = u.retries + 1] \in Budget
  BY DEF Budget
<1>4. [u EXCEPT !.redirects = u.redirects + 1] \in Budget
  BY DEF Budget
<1>5. [u EXCEPT !.shutdowns = u.shutdowns + 1] \in Budget
  BY DEF Budget
<1> QED BY <1>1, <1>2, <1>3, <1>4, <1>5

\* Recording applied steering or an unknown effect keeps the facts well typed.
LEMMA FactsTyped ==
    ASSUME NEW f \in Facts
    PROVE  /\ [f EXCEPT !.applied = f.applied + 1] \in Facts
           /\ [f EXCEPT !.unknownEffect = TRUE] \in Facts
<1>1. [f EXCEPT !.applied = f.applied + 1] \in Facts
  BY DEF Facts
<1>2. [f EXCEPT !.unknownEffect = TRUE] \in Facts
  BY DEF Facts
<1> QED BY <1>1, <1>2

\* A segment that is cancelled closes its batch with well typed values.
LEMMA CancelTyped ==
    ASSUME BatchTypes, HistoryTypes
    PROVE  /\ CancelledTools \in Seq(CallHistory)
           /\ Len(CancelledTools) = Len(tools)
           /\ ClosedMessages \in Seq(Messages)
           /\ messages # <<>> => ClosedMessages # <<>>
<1>1. Calls \in Nat
  BY DEF BatchTypes, Batch, Calls
<1> QED BY <1>1, CloseTailTyped, MessagesTyped
        DEF HistoryTypes, CancelledTools, ClosedMessages

\* The number of calls and the current position of a batch are numbers.
LEMMA CallsTyped ==
    BatchTypes => Calls \in Nat /\ Current \in Nat \ {0}
  BY DEF BatchTypes, Batch, Calls, Current

\* Handing a batch over, advancing it and answering a pause are well typed.
LEMMA BatchTyped ==
    /\ \A b \in Batch : [b EXCEPT !.caller = "resumed"] \in Batch
    /\ \A b \in Batch :
          /\ NextCall(b) \in Batch
          /\ b.next < Len(b.calls) => NextCall(b).next <= Len(NextCall(b).calls)
    /\ \A c \in Continuation : [c EXCEPT !.pause = NoPause] \in Continuation
<1>1. \A b \in Batch : [b EXCEPT !.caller = "resumed"] \in Batch
  BY DEF Batch, Callers
<1>2. \A b \in Batch :
         /\ NextCall(b) \in Batch
         /\ b.next < Len(b.calls) => NextCall(b).next <= Len(NextCall(b).calls)
  BY DEF Batch, NextCall
<1>3. \A c \in Continuation : [c EXCEPT !.pause = NoPause] \in Continuation
  BY DEF Continuation
<1> QED BY <1>1, <1>2, <1>3

\* A freshly prepared permit and one with a decision are well typed.
LEMMA PermitTyped ==
    /\ [prepared |-> TRUE, choice |-> "none"] \in Permit
    /\ \A p \in Permit : /\ [p EXCEPT !.choice = "approve"] \in Permit
                         /\ [p EXCEPT !.choice = "reject"] \in Permit
  BY DEF Permit, Choices

\* A pause leaves a well typed continuation.
LEMMA PauseTyped ==
    ASSUME NEW kind \in PauseKinds, NEW stage \in Stages, NEW iter \in Nat,
           Pause(kind, stage, iter)
    PROVE  cont' \in Continuation
  BY DEF Pause, Continuation

\* The iteration number a pause records.
LEMMA IterationTyped ==
    ASSUME BatchTypes, CounterTypes
    PROVE  /\ NextIteration \in Nat
           /\ cont.iteration \in Nat
           /\ iteration + 1 \in Nat
  BY DEF BatchTypes, Continuation, CounterTypes, NextIteration

\* Opening a batch gives a well typed batch, an empty permit, a transcript that
\* is not empty, and one history for each call.
LEMMA OpenBatchTyped ==
    ASSUME TypeOK, NEW b \in Batches, NEW control \in BOOLEAN,
           NEW caller \in Callers, OpenBatch(b, control, caller)
    PROVE  /\ BatchTypes'
           /\ messages' \in Seq(Messages) /\ messages' # <<>>
           /\ tools' \in Seq(CallHistory) /\ Len(tools') = Calls'
<1>1. b \in Seq(CallKinds) /\ Len(b) \in Nat
  BY BatchesAssumption
<1>2. cont' \in Continuation
  BY DEF OpenBatch, TypeOK, CounterTypes, Continuation, Stages, NoPause
<1>3. batch' \in Batch /\ batch'.next <= Len(batch'.calls)
  BY <1>1 DEF OpenBatch, Batch
<1>4. permit' \in Permit
  BY NoneTyped DEF OpenBatch
<1>5. messages' \in Seq(Messages) /\ messages' # <<>>
  BY <1>1, MessagesTyped DEF OpenBatch, TypeOK, HistoryTypes
<1>6. FreshCall \in CallHistory
  BY DEF FreshCall, CallHistory
<1>7. tools' \in Seq(CallHistory) /\ Len(tools') = Calls'
  BY <1>1, <1>6 DEF OpenBatch, Calls
<1> QED BY <1>2, <1>3, <1>4, <1>5, <1>7 DEF BatchTypes

\* Whether a batch breaks the rule on ProposePlan is a Boolean.
LEMMA PlanNotAloneTyped == \A b : PlanNotAlone(b) \in BOOLEAN
  BY DEF PlanNotAlone

\* The histories that a step builds from more than one event.
LEMMA EventsTyped ==
    ASSUME NEW ts \in Seq(CallHistory), NEW i \in 1..Len(ts)
    PROVE  /\ Ran(Granted(ToolStarted(ts, i), i), i) \in Seq(CallHistory)
           /\ Len(Ran(Granted(ToolStarted(ts, i), i), i)) = Len(ts)
           /\ Rerun(Granted(ts, i), i) \in Seq(CallHistory)
           /\ Len(Rerun(Granted(ts, i), i)) = Len(ts)
           /\ CloseTail(ToolFinished(ts, i), i + 1, FALSE) \in Seq(CallHistory)
           /\ Len(CloseTail(ToolFinished(ts, i), i + 1, FALSE)) = Len(ts)
<1>1. /\ ToolStarted(ts, i) \in Seq(CallHistory)
      /\ Len(ToolStarted(ts, i)) = Len(ts)
  BY HistoryTyped
<1>2. /\ Granted(ToolStarted(ts, i), i) \in Seq(CallHistory)
      /\ Len(Granted(ToolStarted(ts, i), i)) = Len(ts)
  BY <1>1, HistoryTyped
<1>3. /\ Ran(Granted(ToolStarted(ts, i), i), i) \in Seq(CallHistory)
      /\ Len(Ran(Granted(ToolStarted(ts, i), i), i)) = Len(ts)
  BY <1>2, HistoryTyped
<1>4. Granted(ts, i) \in Seq(CallHistory) /\ Len(Granted(ts, i)) = Len(ts)
  BY HistoryTyped
<1>5. /\ Rerun(Granted(ts, i), i) \in Seq(CallHistory)
      /\ Len(Rerun(Granted(ts, i), i)) = Len(ts)
  BY <1>4, HistoryTyped
<1>6. /\ ToolFinished(ts, i) \in Seq(CallHistory)
      /\ Len(ToolFinished(ts, i)) = Len(ts)
  BY HistoryTyped
<1> QED BY <1>3, <1>5, <1>6, CloseTailTyped

(***************************************************************************)
(* The transcript protocol of a message sequence m whose last n calls may  *)
(* still be open, and what each kind of append does to it.                 *)
(***************************************************************************)
Protocol(m, open, n) ==
    /\ \A i \in 1..Len(m) :
          /\ m[i].role = "assistant" /\ m[i].calls > 0
               => IF i < Len(m) THEN m[i+1] = ToolResult(m[i].calls)
                  ELSE open /\ n = m[i].calls
          /\ m[i].role = "tool"
               => i > 1 /\ m[i-1] = Assistant(m[i].calls)
    /\ open => m[Len(m)] = Assistant(n)

\* The elements of a sequence after an append.
LEMMA AppendParts ==
    ASSUME NEW m \in Seq(Messages), NEW x \in Messages
    PROVE  /\ Append(m, x) \in Seq(Messages)
           /\ Len(Append(m, x)) = Len(m) + 1 /\ Len(m) \in Nat
           /\ Append(m, x)[Len(m) + 1] = x
           /\ \A i \in 1..Len(m) : Append(m, x)[i] = m[i]
  OBVIOUS

\* A message that is not a tool message keeps the protocol of a closed
\* transcript, and opens a batch when it carries calls.
LEMMA ProtocolExtends ==
    ASSUME NEW m \in Seq(Messages), NEW n, NEW p, NEW q \in BOOLEAN,
           NEW x \in Messages, Protocol(m, FALSE, n), x.role # "tool",
           x.role = "assistant" /\ x.calls > 0 => q /\ p = x.calls,
           q => x = Assistant(p)
    PROVE  Protocol(Append(m, x), q, p)
<1> DEFINE a == Append(m, x)
<1>1. /\ a \in Seq(Messages) /\ Len(a) = Len(m) + 1 /\ Len(m) \in Nat
      /\ a[Len(m) + 1] = x /\ \A i \in 1..Len(m) : a[i] = m[i]
  BY AppendParts
<1> HIDE DEF a
<1>2. ASSUME NEW i \in 1..Len(m)
      PROVE  /\ a[i].role = "assistant" /\ a[i].calls > 0
                  => i < Len(m) /\ a[i+1] = ToolResult(a[i].calls)
             /\ a[i].role = "tool"
                  => i > 1 /\ a[i-1] = Assistant(a[i].calls)
  BY <1>1 DEF Protocol
<1> QED BY <1>1, <1>2 DEF Protocol, a

\* A tool message with as many results as the open batch has calls closes it.
LEMMA ProtocolCloses ==
    ASSUME NEW m \in Seq(Messages), m # <<>>, NEW n \in Nat, NEW p,
           Protocol(m, TRUE, n)
    PROVE  Protocol(Append(m, ToolResult(n)), FALSE, p)
<1> DEFINE x == ToolResult(n)
           a == Append(m, x)
<1>1. x \in Messages /\ x.role = "tool" /\ x.calls = n
  BY DEF ToolResult, Messages
<1>2. /\ a \in Seq(Messages) /\ Len(a) = Len(m) + 1 /\ Len(m) \in Nat \ {0}
      /\ a[Len(m) + 1] = x /\ \A i \in 1..Len(m) : a[i] = m[i]
  BY <1>1, AppendParts
<1>3. m[Len(m)] = Assistant(n)
  BY DEF Protocol
<1> HIDE DEF a
<1>4. ASSUME NEW i \in 1..Len(m)
      PROVE  /\ a[i].role = "assistant" /\ a[i].calls > 0
                  => a[i+1] = ToolResult(a[i].calls)
             /\ a[i].role = "tool"
                  => i > 1 /\ a[i-1] = Assistant(a[i].calls)
  <2>1. CASE i < Len(m)
    BY <1>2, <2>1 DEF Protocol
  <2>2. CASE i = Len(m)
    BY <1>2, <1>3, <2>2 DEF Protocol, Assistant
  <2> QED BY <1>2, <2>1, <2>2
<1> QED BY <1>1, <1>2, <1>3, <1>4 DEF Protocol, a

\* A closed transcript stays in the protocol after a user message, after an
\* answer, and after an assistant message that opens a batch.
LEMMA ProtocolGrows ==
    ASSUME NEW m \in Seq(Messages), NEW n, NEW p, Protocol(m, FALSE, n)
    PROVE  /\ Protocol(m, FALSE, p)
           /\ Protocol(Append(m, User), FALSE, p)
           /\ Protocol(Append(m, Assistant(0)), FALSE, p)
           /\ p \in Nat => Protocol(Append(m, Assistant(p)), TRUE, p)
<1>1. Protocol(m, FALSE, p)
  BY DEF Protocol
<1>2. /\ User \in Messages /\ User.role = "user"
      /\ \A k \in Nat : /\ Assistant(k) \in Messages
                        /\ Assistant(k).role = "assistant"
                        /\ Assistant(k).calls = k
  BY DEF User, Assistant, Messages
<1>3. Protocol(Append(m, User), FALSE, p)
  BY <1>2, ProtocolExtends
<1>4. Protocol(Append(m, Assistant(0)), FALSE, p)
  <2> DEFINE x == Assistant(0)
  <2>1. x \in Messages /\ x.role = "assistant" /\ ~(x.calls > 0)
    BY <1>2
  <2> HIDE DEF x
  <2>2. Protocol(Append(m, x), FALSE, p)
    BY <2>1, ProtocolExtends
  <2> QED BY <2>2 DEF x
<1>5. ASSUME p \in Nat PROVE Protocol(Append(m, Assistant(p)), TRUE, p)
  BY <1>2, <1>5, ProtocolExtends
<1> QED BY <1>1, <1>3, <1>4, <1>5

\* An open batch closed and followed by a user message, as steering and a
\* revised plan do, is in the protocol.
LEMMA ProtocolClosesAndGoesOn ==
    ASSUME NEW m \in Seq(Messages), m # <<>>, NEW n \in Nat, NEW p,
           Protocol(m, TRUE, n)
    PROVE  /\ Protocol(Append(Append(m, ToolResult(n)), User), FALSE, p)
           /\ Protocol(m \o <<ToolResult(n), User>>, FALSE, p)
<1>1. ToolResult(n) \in Messages /\ User \in Messages
  BY DEF ToolResult, User, Messages
<1>2. Append(m, ToolResult(n)) \in Seq(Messages)
  BY <1>1
<1>3. Protocol(Append(Append(m, ToolResult(n)), User), FALSE, p)
  BY <1>2, ProtocolCloses, ProtocolGrows
<1>4. m \o <<ToolResult(n), User>> = Append(Append(m, ToolResult(n)), User)
  BY <1>1
<1> QED BY <1>3, <1>4

\* All a step may do to the transcript.
TranscriptStep ==
    \/ /\ messages' = messages /\ InBatch' = InBatch
       /\ InBatch => Calls' = Calls
    \/ /\ ~InBatch /\ ~InBatch'
       /\ messages' \in {messages, Append(messages, User),
                         Append(messages, Assistant(0))}
    \/ /\ ~InBatch /\ InBatch'
       /\ Calls' \in Nat
       /\ messages' = Append(messages, Assistant(Calls'))
    \/ /\ InBatch /\ ~InBatch'
       /\ messages' \in {Append(messages, ToolResult(Calls)),
                         Append(Append(messages, ToolResult(Calls)), User),
                         messages \o <<ToolResult(Calls), User>>}

\* The transcript stays well formed under every step of the allowed shapes.
LEMMA TranscriptStepKeepsProtocol ==
    ASSUME HistoryTypes, HistoryShape, Calls \in Nat,
           ToolProtocol, TranscriptStep
    PROVE  ToolProtocol'
<1> USE DEF HistoryTypes, HistoryShape
<1>1. /\ InBatch => Protocol(messages, TRUE, Calls)
      /\ ~InBatch => Protocol(messages, FALSE, Calls)
  BY DEF ToolProtocol, Protocol
<1>2. SUFFICES /\ InBatch' => Protocol(messages', TRUE, Calls')
               /\ ~InBatch' => Protocol(messages', FALSE, Calls')
  BY DEF ToolProtocol, Protocol
<1>3. CASE /\ messages' = messages /\ InBatch' = InBatch
           /\ InBatch => Calls' = Calls
  BY <1>1, <1>3, ProtocolGrows
<1>4. CASE /\ ~InBatch /\ ~InBatch'
           /\ messages' \in {messages, Append(messages, User),
                             Append(messages, Assistant(0))}
  BY <1>1, <1>4, ProtocolGrows
<1>5. CASE /\ ~InBatch /\ InBatch'
           /\ Calls' \in Nat
           /\ messages' = Append(messages, Assistant(Calls'))
  BY <1>1, <1>5, ProtocolGrows
<1>6. CASE /\ InBatch /\ ~InBatch'
           /\ messages' \in {Append(messages, ToolResult(Calls)),
                             Append(Append(messages, ToolResult(Calls)), User),
                             messages \o <<ToolResult(Calls), User>>}
  BY <1>1, <1>6, ProtocolCloses, ProtocolClosesAndGoesOn
<1> QED BY <1>3, <1>4, <1>5, <1>6 DEF TranscriptStep

\* Cancelling a segment closes the open batch, and appends nothing else.
LEMMA CancelTranscript == CancelSegment => TranscriptStep
<1> SUFFICES ASSUME CancelSegment PROVE TranscriptStep
  OBVIOUS
<1>1. ~InBatch'
  BY DEF CancelSegment, Terminate, NoCont, InBatch
<1>2. CASE InBatch
  <2>1. messages' = Append(messages, ToolResult(Calls))
    BY <1>2 DEF CancelSegment, ClosedMessages
  <2> QED BY <1>1, <1>2, <2>1 DEF TranscriptStep
<1>3. CASE ~InBatch
  <2>1. messages' = messages
    BY <1>3 DEF CancelSegment, ClosedMessages
  <2> QED BY <1>1, <1>3, <2>1 DEF TranscriptStep
<1> QED BY <1>2, <1>3

\* ------------------------------------------------ one lemma per conjunct

USE DEF CallPoints, BatchPoints, ClosedPoints, CallPauses, AttemptPoints,
        ToolPoints, SegmentAwaits, DriverAwaits, YieldPoints, InternalPoints,
        Points, NoPause, NoCont, InBatch, Current, Calls, Stages, Callers,
        PauseKinds, Statuses, Failures, Modes, Waiters, CallKinds

\* Every step leaves a known control point, status, outcome and mode.
LEMMA NextPointTypes == Shape /\ Next => PointTypes'
<1> SUFFICES ASSUME Shape, Next PROVE PointTypes'
  OBVIOUS
<1> USE DEF Shape, TypeOK, PointTypes, Reasons, turnVars, planVars, callVars,
    driverVars, execVars, Terminate, Fail, CancelSegment, Pause
<1>1. CASE LoopStep /\ UNCHANGED driverVars
  BY <1>1 DEF LoopStep, LoopCancelled, LoopIterates, LoopResumesBatch,
     LoopSteered, ApplySteering
<1>2. CASE PrepareStep /\ UNCHANGED driverVars
  BY <1>2 DEF PrepareStep, AttemptStarts, PrepareFails
<1>3. CASE BoundaryStep /\ UNCHANGED driverVars
  BY <1>3 DEF BoundaryStep, BoundaryCancelled, BoundaryPaused,
     BoundarySteered, ApplySteering
<1>4. CASE AttemptStep /\ UNCHANGED driverVars
  BY <1>4 DEF AttemptStep, AttemptFails, AttemptOverflows,
     AttemptUnavailable, OverflowRecovered, OverflowUnresolved
<1>5. CASE ResponseStep /\ UNCHANGED driverVars
  BY <1>5 DEF ResponseStep, FinalAnswer, FinalBlocked, ProviderCancels,
     ToolCallsAnswer, OpenBatch, TruncatedAnswer
<1>6. CASE BatchCancelled /\ UNCHANGED driverVars
  BY <1>6 DEF BatchCancelled
<1>7. CASE BatchSteered /\ UNCHANGED driverVars
  BY <1>7 DEF BatchSteered, AfterBatch, ApplySteering
<1>8. CASE BatchPaused /\ UNCHANGED driverVars
  BY <1>8 DEF BatchPaused
<1>9. CASE DispatchStep /\ UNCHANGED driverVars
  BY <1>9 DEF DispatchStep, AskUserQuestion, OrdinaryCall, PreparedCall,
     ProposePlan, RefusedCall, TodoWrite
<1>10. CASE FinishCall /\ UNCHANGED driverVars
  BY <1>10 DEF FinishCall
<1>11. CASE RunawayStops /\ UNCHANGED driverVars
  BY <1>11 DEF RunawayStops, RefusalFailure
<1>12. CASE FinishUnknownCall /\ UNCHANGED driverVars
  BY <1>12 DEF FinishUnknownCall, AfterBatch
<1>13. CASE BatchFinished /\ UNCHANGED driverVars
  BY <1>13 DEF BatchFinished, AfterBatch, RefusalFailure
<1>14. CASE ToolStep /\ UNCHANGED driverVars
  BY <1>14 DEF ToolStep, ToolRedirected, ToolReturns
<1>15. CASE DriverStep
  BY <1>15 DEF DriverStep, CleanupStarts, FinishTerminal, SegmentPaused,
     PauseServed, StartSegment, TurnResumes, WaiterWakes
<1>16. CASE ClaimEvents
  BY <1>16 DEF ClaimEvents, EnsureStarted
<1>17. CASE RequestPause
  BY <1>17 DEF RequestPause, EnsureStarted
<1>18. CASE RequestCancel
  BY <1>18 DEF RequestCancel, CancelToken, CancelWaiter, EnsureStarted
<1>19. CASE RequestSteering
  BY <1>19 DEF RequestSteering, EnsureStarted
<1>20. CASE Resume
  BY <1>20 DEF Resume, AnswerQuestions, Answer, ApprovePlan,
     DecidePermission, ResumeTurn, RevisePlan
<1>21. CASE Shutdown
  BY <1>21 DEF Shutdown, ShutdownDriver, CountShutdown, ShutdownSegment,
     ShutdownTool
<1> QED BY <1>1, <1>2, <1>3, <1>4, <1>5, <1>6, <1>7, <1>8, <1>9, <1>10,
    <1>11, <1>12, <1>13, <1>14, <1>15, <1>16, <1>17, <1>18, <1>19, <1>20,
    <1>21
    DEF Next, CoreStep, ExecStep, BatchStep, Control

\* Every step keeps the flags Boolean and the counters natural.
LEMMA NextFlagTypes == Shape /\ Next => FlagsAndCounters'
<1> SUFFICES ASSUME Shape, Next PROVE FlagsAndCounters'
  OBVIOUS
<1> USE DEF Shape, TypeOK, FlagsAndCounters, FlagTypes, DriverTypes,
    CounterTypes, BatchTypes, Continuation, turnVars, planVars, callVars,
    driverVars, execVars, Terminate, Fail, CancelSegment, Pause
<1>1. CASE LoopCancelled /\ UNCHANGED driverVars
  BY <1>1 DEF LoopCancelled
<1>2. CASE LoopSteered /\ UNCHANGED driverVars
  BY <1>2 DEF LoopSteered, ApplySteering
<1>3. CASE LoopResumesBatch /\ UNCHANGED driverVars
  BY <1>3 DEF LoopResumesBatch
<1>4. CASE LoopIterates /\ UNCHANGED driverVars
  <2>1. FlagTypes'
    BY <1>4 DEF LoopIterates
  <2>2. CounterTypes'
    BY <1>4 DEF LoopIterates, NextIteration
  <2> QED BY <2>1, <2>2
<1>5. CASE PrepareStep /\ UNCHANGED driverVars
  BY <1>5 DEF PrepareStep, AttemptStarts, PrepareFails
<1>6. CASE BoundaryStep /\ UNCHANGED driverVars
  BY <1>6 DEF BoundaryStep, BoundaryCancelled, BoundaryPaused,
     BoundarySteered, ApplySteering
<1>7. CASE AttemptStep /\ UNCHANGED driverVars
  BY <1>7 DEF AttemptStep, AttemptFails, AttemptOverflows,
     AttemptUnavailable, OverflowRecovered, OverflowUnresolved
<1>8. CASE ResponseStep /\ UNCHANGED driverVars
  BY <1>8, ZenonT(40) DEF ResponseStep, FinalAnswer, FinalBlocked, ProviderCancels,
     ToolCallsAnswer, OpenBatch, TruncatedAnswer
<1>9. CASE BatchCancelled /\ UNCHANGED driverVars
  BY <1>9 DEF BatchCancelled
<1>10. CASE BatchSteered /\ UNCHANGED driverVars
  BY <1>10 DEF BatchSteered, AfterBatch, ApplySteering
<1>11. CASE BatchPaused /\ UNCHANGED driverVars
  BY <1>11 DEF BatchPaused
<1>12. CASE RefusedCall /\ UNCHANGED driverVars
  BY <1>12 DEF RefusedCall
<1>13. CASE AskUserQuestion /\ UNCHANGED driverVars
  BY <1>13 DEF AskUserQuestion
<1>14. CASE TodoWrite /\ UNCHANGED driverVars
  BY <1>14 DEF TodoWrite
<1>15. CASE ProposePlan /\ UNCHANGED driverVars
  BY <1>15 DEF ProposePlan
<1>16. CASE OrdinaryCall /\ UNCHANGED driverVars
  <2>1. FlagTypes'
    BY <1>16 DEF OrdinaryCall
  <2>2. CounterTypes'
    BY <1>16 DEF OrdinaryCall
  <2> QED BY <2>1, <2>2
<1>17. CASE PreparedCall /\ UNCHANGED driverVars
  BY <1>17 DEF PreparedCall
<1>18. CASE FinishCall /\ UNCHANGED driverVars
  BY <1>18 DEF FinishCall
<1>19. CASE RunawayStops /\ UNCHANGED driverVars
  BY <1>19 DEF RunawayStops
<1>20. CASE FinishUnknownCall /\ UNCHANGED driverVars
  BY <1>20 DEF FinishUnknownCall, AfterBatch
<1>21. CASE BatchFinished /\ UNCHANGED driverVars
  BY <1>21 DEF BatchFinished, AfterBatch
<1>22. CASE ToolStep /\ UNCHANGED driverVars
  BY <1>22 DEF ToolStep, ToolRedirected, ToolReturns
<1>23. CASE DriverStep
  <2>1. CASE StartSegment
    BY <2>1 DEF StartSegment
  <2>2. CASE SegmentPaused
    BY <2>2 DEF SegmentPaused, PauseServed
  <2>3. CASE WaiterWakes
    BY <2>3 DEF WaiterWakes
  <2>4. CASE TurnResumes
    BY <2>4 DEF TurnResumes
  <2>5. CASE CleanupStarts
    BY <2>5 DEF CleanupStarts
  <2>6. CASE FinishTerminal
    BY <2>6 DEF FinishTerminal
  <2>7. QED
    BY <1>23, <2>1, <2>2, <2>3, <2>4, <2>5, <2>6 DEF DriverStep
<1>24. CASE ClaimEvents
  BY <1>24 DEF ClaimEvents, EnsureStarted
<1>25. CASE RequestPause
  BY <1>25 DEF RequestPause, EnsureStarted
<1>26. CASE RequestCancel
  BY <1>26 DEF RequestCancel, CancelToken, CancelWaiter, EnsureStarted
<1>27. CASE RequestSteering
  BY <1>27 DEF RequestSteering, EnsureStarted
<1>28. CASE Resume
  BY <1>28 DEF Resume, AnswerQuestions, Answer, ApprovePlan,
     DecidePermission, ResumeTurn, RevisePlan
<1>29. CASE Shutdown
  BY <1>29 DEF Shutdown, ShutdownDriver, CountShutdown, ShutdownSegment,
     ShutdownTool
<1> QED BY <1>1, <1>2, <1>3, <1>4, <1>5, <1>6, <1>7, <1>8, <1>9, <1>10,
    <1>11, <1>12, <1>13, <1>14, <1>15, <1>16, <1>17, <1>18, <1>19, <1>20,
    <1>21, <1>22, <1>23, <1>24, <1>25, <1>26, <1>27, <1>28, <1>29
    DEF Next, CoreStep, ExecStep, BatchStep, Control, LoopStep, DispatchStep

\* Every step keeps the batch, the continuation and the permit well typed; the
\* index of the batch advances only at a control point that has a current call.
LEMMA NextBatchTypes == Shape /\ Next => BatchTypes'
<1> SUFFICES ASSUME Shape, Next PROVE BatchTypes'
  OBVIOUS
<1> USE DEF Shape, TypeOK, Shape, ControlInv, PauseCoherence, DriverShape,
    BatchShape, BatchTypes, CounterTypes, turnVars, planVars, callVars,
    driverVars, execVars, Terminate, Fail, CancelSegment
<1>1. CASE LoopCancelled /\ UNCHANGED driverVars
  BY <1>1, NoneTyped DEF LoopCancelled
<1>2. CASE LoopSteered /\ UNCHANGED driverVars
  BY <1>2, NoneTyped DEF LoopSteered, ApplySteering
<1>3. CASE LoopResumesBatch /\ UNCHANGED driverVars
  BY <1>3, BatchTyped DEF LoopResumesBatch
<1>4. CASE LoopIterates /\ UNCHANGED driverVars
  <2>1. cont' \in Continuation
    BY <1>4, IterationTyped, PauseTyped DEF LoopIterates, Stages
  <2> QED BY <1>4, <2>1 DEF LoopIterates
<1>5. CASE PrepareStep /\ UNCHANGED driverVars
  BY <1>5, NoneTyped DEF PrepareStep, AttemptStarts, PrepareFails
<1>6. CASE BoundaryStep /\ UNCHANGED driverVars
  BY <1>6, NoneTyped, PauseTyped, IterationTyped DEF BoundaryStep,
     BoundaryCancelled, BoundaryPaused, BoundarySteered, ApplySteering
<1>7. CASE AttemptStep /\ UNCHANGED driverVars
  BY <1>7, NoneTyped, PauseTyped, IterationTyped DEF AttemptStep,
     AttemptFails, AttemptOverflows, AttemptUnavailable, OverflowRecovered,
     OverflowUnresolved
<1>8. CASE ProviderCancels /\ UNCHANGED driverVars
  BY <1>8, NoneTyped DEF ProviderCancels
<1>9. CASE FinalAnswer /\ UNCHANGED driverVars
  BY <1>9, NoneTyped DEF FinalAnswer
<1>10. CASE FinalBlocked /\ UNCHANGED driverVars
  BY <1>10, NoneTyped DEF FinalBlocked
<1>11. CASE TruncatedAnswer /\ UNCHANGED driverVars
  <2>1. CASE \E b \in Batches : OpenBatch(b, TRUE, "incomplete")
    BY <2>1, OpenBatchTyped DEF Callers
  <2>2. CASE Fail("max_output_tokens")
    BY <2>2, NoneTyped
  <2> QED BY <1>11, <2>1, <2>2 DEF TruncatedAnswer
<1>12. CASE ToolCallsAnswer /\ UNCHANGED driverVars
  BY <1>12, OpenBatchTyped, PlanNotAloneTyped DEF ToolCallsAnswer, Callers
<1>13. CASE BatchCancelled /\ UNCHANGED driverVars
  BY <1>13, NoneTyped DEF BatchCancelled
<1>14. CASE BatchSteered /\ UNCHANGED driverVars
  BY <1>14, NoneTyped, CallsTyped DEF BatchSteered, AfterBatch, ApplySteering
<1>15. CASE BatchPaused /\ UNCHANGED driverVars
  BY <1>15, CallsTyped, PauseTyped, IterationTyped DEF BatchPaused
<1>16. CASE RefusedCall /\ UNCHANGED driverVars
  BY <1>16, CallsTyped DEF RefusedCall
<1>17. CASE AskUserQuestion /\ UNCHANGED driverVars
  BY <1>17, CallsTyped, PauseTyped, IterationTyped DEF AskUserQuestion
<1>18. CASE TodoWrite /\ UNCHANGED driverVars
  BY <1>18, CallsTyped DEF TodoWrite
<1>19. CASE ProposePlan /\ UNCHANGED driverVars
  BY <1>19, CallsTyped, PauseTyped, IterationTyped DEF ProposePlan
<1>20. CASE OrdinaryCall /\ UNCHANGED driverVars
  BY <1>20, CallsTyped, PermitTyped, PauseTyped, IterationTyped DEF
     OrdinaryCall
<1>21. CASE PreparedCall /\ UNCHANGED driverVars
  BY <1>21, NoneTyped, CallsTyped DEF PreparedCall
<1>22. CASE FinishCall /\ UNCHANGED driverVars
  <2>1. batch.next < Len(batch.calls)
    BY <1>22 DEF FinishCall, Batch
  <2>2. batch' = NextCall(batch) /\ UNCHANGED <<cont, permit>>
    BY <1>22 DEF FinishCall
  <2> QED BY <2>1, <2>2, BatchTyped
<1>23. CASE RunawayStops /\ UNCHANGED driverVars
  BY <1>23, NoneTyped, BatchTyped, CallsTyped DEF RunawayStops
<1>24. CASE FinishUnknownCall /\ UNCHANGED driverVars
  BY <1>24, NoneTyped, BatchTyped, CallsTyped DEF FinishUnknownCall,
     AfterBatch
<1>25. CASE BatchFinished /\ UNCHANGED driverVars
  BY <1>25, NoneTyped, BatchTyped, CallsTyped, PauseTyped, IterationTyped DEF
     BatchFinished, AfterBatch
<1>26. CASE ToolReturns /\ UNCHANGED driverVars
  BY <1>26 DEF ToolReturns
<1>27. CASE ToolRedirected /\ UNCHANGED driverVars
  BY <1>27, CallsTyped, PermitTyped, PauseTyped, IterationTyped DEF
     ToolRedirected
<1>28. CASE DriverStep
  BY <1>28, NoneTyped, BatchTyped DEF DriverStep, CleanupStarts,
     FinishTerminal, SegmentPaused, PauseServed, StartSegment, TurnResumes,
     WaiterWakes
<1>29. CASE ClaimEvents
  BY <1>29 DEF ClaimEvents, EnsureStarted
<1>30. CASE RequestPause
  BY <1>30, BatchTyped DEF RequestPause, EnsureStarted
<1>31. CASE RequestCancel
  BY <1>31 DEF RequestCancel, CancelToken, CancelWaiter, EnsureStarted
<1>32. CASE RequestSteering
  BY <1>32 DEF RequestSteering, EnsureStarted
<1>33. CASE ResumeTurn
  BY <1>33, BatchTyped DEF ResumeTurn, Answer
<1>34. CASE AnswerQuestions
  <2>1. batch.next < Len(batch.calls)
    BY <1>34 DEF AnswerQuestions, Resumable, Batch
  <2>2. /\ batch' = NextCall(batch) /\ permit' = permit
        /\ cont' = [cont EXCEPT !.pause = NoPause]
    BY <1>34 DEF AnswerQuestions, Answer
  <2> QED BY <2>1, <2>2, BatchTyped
<1>35. CASE DecidePermission
  BY <1>35, BatchTyped, CallsTyped, PermitTyped DEF DecidePermission, Answer
<1>36. CASE ApprovePlan
  <2>1. batch.next < Len(batch.calls)
    BY <1>36 DEF ApprovePlan, Resumable, Batch
  <2>2. /\ batch' = NextCall(batch) /\ permit' = permit
        /\ cont' = [cont EXCEPT !.pause = NoPause]
    BY <1>36 DEF ApprovePlan, Answer
  <2> QED BY <2>1, <2>2, BatchTyped
<1>37. CASE RevisePlan
  BY <1>37, NoneTyped, CallsTyped DEF RevisePlan
<1>38. CASE Shutdown
  BY <1>38, NoneTyped, BatchTyped DEF Shutdown, ShutdownDriver,
     CountShutdown, ShutdownSegment, ShutdownTool
<1> QED BY <1>1, <1>2, <1>3, <1>4, <1>5, <1>6, <1>7, <1>8, <1>9, <1>10,
    <1>11, <1>12, <1>13, <1>14, <1>15, <1>16, <1>17, <1>18, <1>19, <1>20,
    <1>21, <1>22, <1>23, <1>24, <1>25, <1>26, <1>27, <1>28, <1>29, <1>30,
    <1>31, <1>32, <1>33, <1>34, <1>35, <1>36, <1>37, <1>38
    DEF Next, CoreStep, ExecStep, BatchStep, Control, LoopStep, ResponseStep,
        DispatchStep, ToolStep, Resume

\* Every step keeps the transcript, the call histories and the ledgers typed.
LEMMA NextHistoryTypes == Shape /\ Next => HistoryTypes'
<1> SUFFICES ASSUME Shape, Next PROVE HistoryTypes'
  OBVIOUS
<1> USE DEF Shape, TypeOK, Shape, ControlInv, PauseCoherence, BatchShape,
    BatchTypes, HistoryTypes, HistoryShape, turnVars, planVars, callVars,
    driverVars, execVars, Terminate, Fail, CancelSegment, Pause
<1>1. CASE LoopCancelled /\ UNCHANGED driverVars
  BY <1>1, CancelTyped DEF LoopCancelled
<1>2. CASE LoopSteered /\ UNCHANGED driverVars
  BY <1>2, MessagesTyped, FactsTyped DEF LoopSteered, ApplySteering
<1>3. CASE LoopResumesBatch /\ UNCHANGED driverVars
  BY <1>3 DEF LoopResumesBatch
<1>4. CASE LoopIterates /\ UNCHANGED driverVars
  BY <1>4 DEF LoopIterates
<1>5. CASE PrepareFails /\ UNCHANGED driverVars
  BY <1>5 DEF PrepareFails
<1>6. CASE AttemptStarts /\ UNCHANGED driverVars
  BY <1>6 DEF AttemptStarts
<1>7. CASE BoundaryCancelled /\ UNCHANGED driverVars
  BY <1>7, CancelTyped DEF BoundaryCancelled
<1>8. CASE BoundarySteered /\ UNCHANGED driverVars
  BY <1>8, MessagesTyped, FactsTyped DEF BoundarySteered, ApplySteering
<1>9. CASE BoundaryPaused /\ UNCHANGED driverVars
  BY <1>9 DEF BoundaryPaused
<1>10. CASE AttemptUnavailable /\ UNCHANGED driverVars
  BY <1>10, BudgetTyped DEF AttemptUnavailable
<1>11. CASE AttemptFails /\ UNCHANGED driverVars
  BY <1>11 DEF AttemptFails
<1>12. CASE AttemptOverflows /\ UNCHANGED driverVars
  BY <1>12 DEF AttemptOverflows
<1>13. CASE OverflowRecovered /\ UNCHANGED driverVars
  BY <1>13 DEF OverflowRecovered
<1>14. CASE OverflowUnresolved /\ UNCHANGED driverVars
  BY <1>14 DEF OverflowUnresolved
<1>15. CASE ProviderCancels /\ UNCHANGED driverVars
  BY <1>15, CancelTyped DEF ProviderCancels
<1>16. CASE FinalAnswer /\ UNCHANGED driverVars
  BY <1>16, MessagesTyped DEF FinalAnswer
<1>17. CASE FinalBlocked /\ UNCHANGED driverVars
  BY <1>17 DEF FinalBlocked
<1>18. CASE TruncatedAnswer /\ UNCHANGED driverVars
  <2>1. CASE \E b \in Batches : OpenBatch(b, TRUE, "incomplete")
    <3>1. facts' = facts /\ used' = used
      BY <2>1 DEF OpenBatch
    <3> QED BY <2>1, <3>1, OpenBatchTyped DEF Callers
  <2>2. CASE Fail("max_output_tokens") /\ UNCHANGED <<tools, facts, used>>
                 /\ messages' = Append(messages, Assistant(0))
    BY <2>2, MessagesTyped
  <2> QED BY <1>18, <2>1, <2>2 DEF TruncatedAnswer
<1>19. CASE ToolCallsAnswer /\ UNCHANGED driverVars
  <2>1. PICK b \in Batches, control \in BOOLEAN, caller \in Callers :
            OpenBatch(b, control, caller)
    BY <1>19, PlanNotAloneTyped DEF ToolCallsAnswer, Callers
  <2>2. facts' = facts /\ used' = used
    BY <2>1 DEF OpenBatch
  <2> QED BY <2>1, <2>2, OpenBatchTyped
<1>20. CASE BatchCancelled /\ UNCHANGED driverVars
  BY <1>20, CancelTyped DEF BatchCancelled
<1>21. CASE BatchSteered /\ UNCHANGED driverVars
  BY <1>21, CloseTailTyped, MessagesTyped, FactsTyped, CallsTyped DEF
     BatchSteered, AfterBatch, ApplySteering
<1>22. CASE BatchPaused /\ UNCHANGED driverVars
  BY <1>22, CallsTyped DEF BatchPaused
<1>23. CASE RefusedCall /\ UNCHANGED driverVars
  BY <1>23, HistoryTyped, CallsTyped DEF RefusedCall, Dispatching,
     InToolLoop, Uninterrupted
<1>24. CASE AskUserQuestion /\ UNCHANGED driverVars
  BY <1>24, HistoryTyped, CallsTyped DEF AskUserQuestion, Dispatching,
     InToolLoop, Uninterrupted
<1>25. CASE TodoWrite /\ UNCHANGED driverVars
  BY <1>25, HistoryTyped, CallsTyped DEF TodoWrite, Dispatching, InToolLoop,
     Uninterrupted
<1>26. CASE ProposePlan /\ UNCHANGED driverVars
  BY <1>26, HistoryTyped, CallsTyped DEF ProposePlan, Dispatching,
     InToolLoop, Uninterrupted
<1>27. CASE OrdinaryCall /\ UNCHANGED driverVars
  <2>1. Current \in 1..Len(tools)
    BY <1>27, CallsTyped DEF OrdinaryCall, Dispatching, InToolLoop
  <2>2. \/ tools' = ToolStarted(tools, Current)
        \/ tools' = Ran(Granted(ToolStarted(tools, Current), Current), Current)
    BY <1>27 DEF OrdinaryCall
  <2>3. UNCHANGED <<messages, facts, used>>
    BY <1>27 DEF OrdinaryCall
  <2> HIDE DEF Current
  <2> QED BY <2>1, <2>2, <2>3, HistoryTyped, EventsTyped
<1>28. CASE PreparedCall /\ UNCHANGED driverVars
  BY <1>28, HistoryTyped, CallsTyped DEF PreparedCall, Dispatching,
     InToolLoop, Uninterrupted
<1>29. CASE FinishCall /\ UNCHANGED driverVars
  BY <1>29, HistoryTyped, CallsTyped DEF FinishCall
<1>30. CASE RunawayStops /\ UNCHANGED driverVars
  <2>1. Current \in 1..Len(tools) /\ Calls \in Nat
    BY <1>30, CallsTyped DEF RunawayStops
  <2>2. /\ tools' = CloseTail(ToolFinished(tools, Current), Current + 1, FALSE)
        /\ messages' = Append(messages, ToolResult(Calls))
        /\ UNCHANGED <<facts, used>>
    BY <1>30 DEF RunawayStops
  <2> HIDE DEF Current, Calls
  <2> QED BY <2>1, <2>2, EventsTyped, MessagesTyped
<1>31. CASE FinishUnknownCall /\ UNCHANGED driverVars
  <2>1. Current \in 1..Len(tools) /\ Calls \in Nat
    BY <1>31, CallsTyped DEF FinishUnknownCall
  <2>2. /\ tools' = CloseTail(ToolFinished(tools, Current), Current + 1, FALSE)
        /\ messages' = Append(messages, ToolResult(Calls))
        /\ facts' = [facts EXCEPT !.unknownEffect = TRUE]
        /\ used' = used
    BY <1>31 DEF FinishUnknownCall
  <2> HIDE DEF Current, Calls
  <2> QED BY <2>1, <2>2, EventsTyped, MessagesTyped, FactsTyped
<1>32. CASE BatchFinished /\ UNCHANGED driverVars
  BY <1>32, MessagesTyped, CallsTyped DEF BatchFinished, AfterBatch
<1>33. CASE ToolReturns /\ UNCHANGED driverVars
  BY <1>33 DEF ToolReturns
<1>34. CASE ToolRedirected /\ UNCHANGED driverVars
  <2>1. Current \in 1..Len(tools)
    BY <1>34, CallsTyped DEF ToolRedirected
  <2>2. tools' = tools \/ tools' = Rerun(Granted(tools, Current), Current)
    BY <1>34 DEF ToolRedirected
  <2>3. /\ UNCHANGED <<messages, facts>>
        /\ used' = [used EXCEPT !.redirects = used.redirects + 1]
    BY <1>34 DEF ToolRedirected
  <2> HIDE DEF Current
  <2> QED BY <2>1, <2>2, <2>3, EventsTyped, BudgetTyped
<1>35. CASE StartSegment
  BY <1>35, CancelTyped DEF StartSegment
<1>36. CASE SegmentPaused
  BY <1>36 DEF SegmentPaused, PauseServed
<1>37. CASE WaiterWakes
  BY <1>37 DEF WaiterWakes
<1>38. CASE TurnResumes
  BY <1>38 DEF TurnResumes
<1>39. CASE CleanupStarts
  BY <1>39 DEF CleanupStarts
<1>40. CASE FinishTerminal
  BY <1>40 DEF FinishTerminal
<1>41. CASE ClaimEvents
  BY <1>41 DEF ClaimEvents, EnsureStarted
<1>42. CASE RequestPause
  BY <1>42, BudgetTyped DEF RequestPause, EnsureStarted
<1>43. CASE RequestCancel
  BY <1>43 DEF RequestCancel, CancelToken, CancelWaiter, EnsureStarted
<1>44. CASE RequestSteering
  BY <1>44, BudgetTyped DEF RequestSteering, EnsureStarted
<1>45. CASE ResumeTurn
  BY <1>45 DEF ResumeTurn, Answer
<1>46. CASE AnswerQuestions
  BY <1>46, HistoryTyped, CallsTyped DEF AnswerQuestions, Answer
<1>47. CASE DecidePermission
  BY <1>47, HistoryTyped, CallsTyped DEF DecidePermission, Answer
<1>48. CASE ApprovePlan
  BY <1>48, HistoryTyped, CallsTyped DEF ApprovePlan, Answer
<1>49. CASE RevisePlan
  <2>1. Current \in 1..Len(tools) /\ Calls \in Nat
    BY <1>49, CallsTyped DEF RevisePlan, Resumable
  <2>2. /\ tools' = ToolFinished(tools, Current)
        /\ messages' = messages \o <<ToolResult(Calls), User>>
        /\ UNCHANGED <<facts, used>>
    BY <1>49 DEF RevisePlan
  <2> HIDE DEF Current, Calls
  <2> QED BY <2>1, <2>2, HistoryTyped, MessagesTyped
<1>50. CASE ShutdownSegment
  BY <1>50, CancelTyped, BudgetTyped DEF ShutdownSegment, CountShutdown
<1>51. CASE ShutdownTool
  BY <1>51, BudgetTyped DEF ShutdownTool, CountShutdown
<1>52. CASE ShutdownDriver
  BY <1>52, BudgetTyped DEF ShutdownDriver, CountShutdown
<1> QED BY <1>1, <1>2, <1>3, <1>4, <1>5, <1>6, <1>7, <1>8, <1>9, <1>10,
    <1>11, <1>12, <1>13, <1>14, <1>15, <1>16, <1>17, <1>18, <1>19, <1>20,
    <1>21, <1>22, <1>23, <1>24, <1>25, <1>26, <1>27, <1>28, <1>29, <1>30,
    <1>31, <1>32, <1>33, <1>34, <1>35, <1>36, <1>37, <1>38, <1>39, <1>40,
    <1>41, <1>42, <1>43, <1>44, <1>45, <1>46, <1>47, <1>48, <1>49, <1>50,
    <1>51, <1>52
    DEF Next, CoreStep, ExecStep, BatchStep, Control, LoopStep, PrepareStep,
        BoundaryStep, AttemptStep, ResponseStep, DispatchStep, ToolStep,
        DriverStep, Resume, Shutdown

\* Every step keeps the waiter and the pending pause of the driver typed.
LEMMA NextDriverTypes == Shape /\ Next => DriverTypes'
<1> SUFFICES ASSUME Shape, Next PROVE DriverTypes'
  OBVIOUS
<1> USE DEF Shape, TypeOK, Shape, ControlInv, PointTypes, BatchTypes,
    Continuation, OutcomeShape, DriverTypes, Asks, turnVars, planVars,
    callVars, driverVars, execVars, Terminate, Fail, CancelSegment, Pause
<1>1. CASE LoopStep /\ UNCHANGED driverVars
  BY <1>1 DEF LoopStep, LoopCancelled, LoopIterates, LoopResumesBatch,
     LoopSteered, ApplySteering
<1>2. CASE PrepareStep /\ UNCHANGED driverVars
  BY <1>2 DEF PrepareStep, AttemptStarts, PrepareFails
<1>3. CASE BoundaryStep /\ UNCHANGED driverVars
  BY <1>3 DEF BoundaryStep, BoundaryCancelled, BoundaryPaused,
     BoundarySteered, ApplySteering
<1>4. CASE AttemptStep /\ UNCHANGED driverVars
  BY <1>4 DEF AttemptStep, AttemptFails, AttemptOverflows,
     AttemptUnavailable, OverflowRecovered, OverflowUnresolved
<1>5. CASE ResponseStep /\ UNCHANGED driverVars
  BY <1>5 DEF ResponseStep, FinalAnswer, FinalBlocked, ProviderCancels,
     ToolCallsAnswer, OpenBatch, TruncatedAnswer
<1>6. CASE BatchCancelled /\ UNCHANGED driverVars
  BY <1>6 DEF BatchCancelled
<1>7. CASE BatchSteered /\ UNCHANGED driverVars
  BY <1>7 DEF BatchSteered, AfterBatch, ApplySteering
<1>8. CASE BatchPaused /\ UNCHANGED driverVars
  BY <1>8 DEF BatchPaused
<1>9. CASE DispatchStep /\ UNCHANGED driverVars
  BY <1>9 DEF DispatchStep, AskUserQuestion, OrdinaryCall, PreparedCall,
     ProposePlan, RefusedCall, TodoWrite
<1>10. CASE FinishCall /\ UNCHANGED driverVars
  BY <1>10 DEF FinishCall
<1>11. CASE RunawayStops /\ UNCHANGED driverVars
  BY <1>11 DEF RunawayStops
<1>12. CASE FinishUnknownCall /\ UNCHANGED driverVars
  BY <1>12 DEF FinishUnknownCall, AfterBatch
<1>13. CASE BatchFinished /\ UNCHANGED driverVars
  BY <1>13 DEF BatchFinished, AfterBatch
<1>14. CASE ToolStep /\ UNCHANGED driverVars
  BY <1>14 DEF ToolStep, ToolRedirected, ToolReturns
<1>15. CASE StartSegment
  BY <1>15 DEF StartSegment
<1>16. CASE SegmentPaused
  BY <1>16 DEF SegmentPaused, PauseServed
<1>17. CASE WaiterWakes
  BY <1>17 DEF WaiterWakes
<1>18. CASE TurnResumes
  BY <1>18 DEF TurnResumes
<1>19. CASE CleanupStarts
  BY <1>19 DEF CleanupStarts
<1>20. CASE FinishTerminal
  BY <1>20 DEF FinishTerminal
<1>21. CASE ClaimEvents
  BY <1>21 DEF ClaimEvents, EnsureStarted
<1>22. CASE RequestPause
  BY <1>22 DEF RequestPause, EnsureStarted
<1>23. CASE RequestCancel
  BY <1>23 DEF RequestCancel, CancelToken, CancelWaiter, EnsureStarted
<1>24. CASE RequestSteering
  BY <1>24 DEF RequestSteering, EnsureStarted
<1>25. CASE Resume
  BY <1>25 DEF Resume, AnswerQuestions, Answer, ApprovePlan,
     DecidePermission, ResumeTurn, RevisePlan
<1>26. CASE Shutdown
  BY <1>26 DEF Shutdown, ShutdownDriver, CountShutdown, ShutdownSegment,
     ShutdownTool
<1> QED BY <1>1, <1>2, <1>3, <1>4, <1>5, <1>6, <1>7, <1>8, <1>9, <1>10,
    <1>11, <1>12, <1>13, <1>14, <1>15, <1>16, <1>17, <1>18, <1>19, <1>20,
    <1>21, <1>22, <1>23, <1>24, <1>25, <1>26
    DEF Next, CoreStep, ExecStep, BatchStep, Control, DriverStep

\* Every step keeps the control points of a batch inside an open batch.
LEMMA NextBatchShape == Shape /\ Next => BatchShape'
<1> SUFFICES ASSUME Shape, Next PROVE BatchShape'
  OBVIOUS
<1> USE DEF Shape, TypeOK, Shape, ControlInv, PauseCoherence, DriverShape,
    BatchShape, BatchTypes, Batch, turnVars, planVars, callVars, driverVars,
    execVars, Terminate, Fail, CancelSegment, Pause
<1>1. CASE LoopStep /\ UNCHANGED driverVars
  BY <1>1 DEF LoopStep, LoopCancelled, LoopIterates, LoopResumesBatch,
     LoopSteered, ApplySteering
<1>2. CASE PrepareStep /\ UNCHANGED driverVars
  BY <1>2 DEF PrepareStep, AttemptStarts, PrepareFails
<1>3. CASE BoundaryStep /\ UNCHANGED driverVars
  BY <1>3 DEF BoundaryStep, BoundaryCancelled, BoundaryPaused,
     BoundarySteered, ApplySteering
<1>4. CASE AttemptStep /\ UNCHANGED driverVars
  BY <1>4 DEF AttemptStep, AttemptFails, AttemptOverflows,
     AttemptUnavailable, OverflowRecovered, OverflowUnresolved
<1>5. CASE ResponseStep /\ UNCHANGED driverVars
  BY <1>5 DEF ResponseStep, FinalAnswer, FinalBlocked, ProviderCancels,
     ToolCallsAnswer, OpenBatch, TruncatedAnswer
<1>6. CASE BatchCancelled /\ UNCHANGED driverVars
  BY <1>6 DEF BatchCancelled
<1>7. CASE BatchSteered /\ UNCHANGED driverVars
  BY <1>7 DEF BatchSteered, AfterBatch, ApplySteering
<1>8. CASE BatchPaused /\ UNCHANGED driverVars
  BY <1>8 DEF BatchPaused
<1>9. CASE DispatchStep /\ UNCHANGED driverVars
  BY <1>9 DEF DispatchStep, AskUserQuestion, Dispatching, InToolLoop,
     Uninterrupted, OrdinaryCall, PreparedCall, ProposePlan, RefusedCall,
     TodoWrite
<1>10. CASE FinishCall /\ UNCHANGED driverVars
  BY <1>10 DEF FinishCall
<1>11. CASE RunawayStops /\ UNCHANGED driverVars
  BY <1>11 DEF RunawayStops
<1>12. CASE FinishUnknownCall /\ UNCHANGED driverVars
  BY <1>12 DEF FinishUnknownCall, AfterBatch
<1>13. CASE BatchFinished /\ UNCHANGED driverVars
  BY <1>13 DEF BatchFinished, AfterBatch
<1>14. CASE ToolStep /\ UNCHANGED driverVars
  BY <1>14 DEF ToolStep, ToolRedirected, ToolReturns
<1>15. CASE DriverStep
  BY <1>15 DEF DriverStep, CleanupStarts, FinishTerminal, SegmentPaused,
     PauseServed, StartSegment, TurnResumes, WaiterWakes
<1>16. CASE ClaimEvents
  BY <1>16 DEF ClaimEvents, EnsureStarted
<1>17. CASE RequestPause
  BY <1>17 DEF RequestPause, EnsureStarted
<1>18. CASE RequestCancel
  BY <1>18 DEF RequestCancel, CancelToken, CancelWaiter, EnsureStarted
<1>19. CASE RequestSteering
  BY <1>19 DEF RequestSteering, EnsureStarted
<1>20. CASE ResumeTurn
  BY <1>20 DEF ResumeTurn, Answer
<1>21. CASE AnswerQuestions
  BY <1>21 DEF AnswerQuestions, Answer
<1>22. CASE DecidePermission
  BY <1>22 DEF DecidePermission, Answer
<1>23. CASE ApprovePlan
  BY <1>23 DEF ApprovePlan, Answer
<1>24. CASE RevisePlan
  BY <1>24 DEF RevisePlan
<1>25. CASE Shutdown
  BY <1>25 DEF Shutdown, ShutdownDriver, CountShutdown, ShutdownSegment,
     ShutdownTool
<1> QED BY <1>1, <1>2, <1>3, <1>4, <1>5, <1>6, <1>7, <1>8, <1>9, <1>10,
    <1>11, <1>12, <1>13, <1>14, <1>15, <1>16, <1>17, <1>18, <1>19, <1>20,
    <1>21, <1>22, <1>23, <1>24, <1>25
    DEF Next, CoreStep, ExecStep, BatchStep, Control, Resume

\* Every step keeps what the control points say about the waiter.
LEMMA NextDriverShape == Shape /\ Next => DriverShape'
<1> SUFFICES ASSUME Shape, Next PROVE DriverShape'
  OBVIOUS
<1> USE DEF Shape, ControlInv, PauseCoherence, DriverShape, turnVars,
    planVars, callVars, driverVars, execVars, Terminate, Fail, CancelSegment,
    Pause
<1>1. CASE LoopStep /\ UNCHANGED driverVars
  BY <1>1 DEF LoopStep, LoopCancelled, LoopIterates, LoopResumesBatch,
     LoopSteered, ApplySteering
<1>2. CASE PrepareStep /\ UNCHANGED driverVars
  BY <1>2 DEF PrepareStep, AttemptStarts, PrepareFails
<1>3. CASE BoundaryStep /\ UNCHANGED driverVars
  BY <1>3 DEF BoundaryStep, BoundaryCancelled, BoundaryPaused,
     BoundarySteered, ApplySteering
<1>4. CASE AttemptStep /\ UNCHANGED driverVars
  BY <1>4 DEF AttemptStep, AttemptFails, AttemptOverflows,
     AttemptUnavailable, OverflowRecovered, OverflowUnresolved
<1>5. CASE ResponseStep /\ UNCHANGED driverVars
  BY <1>5 DEF ResponseStep, FinalAnswer, Responding, Undisturbed,
     FinalBlocked, ProviderCancels, ToolCallsAnswer, OpenBatch,
     TruncatedAnswer
<1>6. CASE BatchCancelled /\ UNCHANGED driverVars
  BY <1>6 DEF BatchCancelled, InToolLoop
<1>7. CASE BatchSteered /\ UNCHANGED driverVars
  BY <1>7 DEF BatchSteered, AfterBatch, ApplySteering, InToolLoop
<1>8. CASE BatchPaused /\ UNCHANGED driverVars
  BY <1>8 DEF BatchPaused, InToolLoop
<1>9. CASE DispatchStep /\ UNCHANGED driverVars
  BY <1>9 DEF DispatchStep, AskUserQuestion, Dispatching, InToolLoop,
     Uninterrupted, OrdinaryCall, PreparedCall, ProposePlan, RefusedCall,
     TodoWrite
<1>10. CASE FinishCall /\ UNCHANGED driverVars
  BY <1>10 DEF FinishCall
<1>11. CASE RunawayStops /\ UNCHANGED driverVars
  BY <1>11 DEF RunawayStops
<1>12. CASE FinishUnknownCall /\ UNCHANGED driverVars
  BY <1>12 DEF FinishUnknownCall, AfterBatch
<1>13. CASE BatchFinished /\ UNCHANGED driverVars
  BY <1>13 DEF BatchFinished, AfterBatch
<1>14. CASE ToolStep /\ UNCHANGED driverVars
  BY <1>14 DEF ToolStep, ToolRedirected, ToolReturns
<1>15. CASE DriverStep
  BY <1>15 DEF DriverStep, CleanupStarts, FinishTerminal, SegmentPaused,
     PauseServed, StartSegment, TurnResumes, WaiterWakes
<1>16. CASE ClaimEvents
  BY <1>16 DEF ClaimEvents, EnsureStarted
<1>17. CASE RequestPause
  BY <1>17 DEF RequestPause, EnsureStarted
<1>18. CASE RequestCancel
  BY <1>18 DEF RequestCancel, CancelToken, CancelWaiter, EnsureStarted
<1>19. CASE RequestSteering
  BY <1>19 DEF RequestSteering, EnsureStarted
<1>20. CASE ResumeTurn
  BY <1>20 DEF ResumeTurn, Answer, Resumable
<1>21. CASE AnswerQuestions
  BY <1>21 DEF AnswerQuestions, Answer, NextCall, Resumable
<1>22. CASE DecidePermission
  BY <1>22 DEF DecidePermission, Answer, Resumable
<1>23. CASE ApprovePlan
  BY <1>23 DEF ApprovePlan, Answer, NextCall, Resumable
<1>24. CASE RevisePlan
  BY <1>24 DEF RevisePlan, Resumable
<1>25. CASE Shutdown
  BY <1>25 DEF Shutdown, ShutdownDriver, CountShutdown, ShutdownSegment,
     ShutdownTool
<1> QED BY <1>1, <1>2, <1>3, <1>4, <1>5, <1>6, <1>7, <1>8, <1>9, <1>10,
    <1>11, <1>12, <1>13, <1>14, <1>15, <1>16, <1>17, <1>18, <1>19, <1>20,
    <1>21, <1>22, <1>23, <1>24, <1>25
    DEF Next, CoreStep, ExecStep, BatchStep, Control, Resume

\* The waiter and the continuation agree after every step, and an outcome is
\* set only by a turn that reached it.
LEMMA NextPauses == Shape /\ Next => PausesAndOutcome'
<1> SUFFICES ASSUME Shape, Next PROVE PausesAndOutcome'
  OBVIOUS
<1> USE DEF Shape, ControlInv, PausesAndOutcome, PauseCoherence, DriverShape,
    BatchShape, OutcomeShape, turnVars, planVars, callVars, driverVars,
    execVars, Terminate, Fail, CancelSegment, Pause
<1>1. CASE LoopStep /\ UNCHANGED driverVars
  BY <1>1 DEF LoopStep, LoopCancelled, LoopIterates, LoopResumesBatch,
     LoopSteered, ApplySteering
<1>2. CASE PrepareStep /\ UNCHANGED driverVars
  BY <1>2 DEF PrepareStep, AttemptStarts, PrepareFails
<1>3. CASE BoundaryStep /\ UNCHANGED driverVars
  BY <1>3 DEF BoundaryStep, BoundaryCancelled, BoundaryPaused,
     BoundarySteered, ApplySteering
<1>4. CASE AttemptStep /\ UNCHANGED driverVars
  BY <1>4 DEF AttemptStep, AttemptFails, AttemptOverflows,
     AttemptUnavailable, OverflowRecovered, OverflowUnresolved
<1>5. CASE ResponseStep /\ UNCHANGED driverVars
  BY <1>5 DEF ResponseStep, FinalAnswer, Responding, Undisturbed,
     FinalBlocked, ProviderCancels, ToolCallsAnswer, OpenBatch,
     TruncatedAnswer
<1>6. CASE BatchCancelled /\ UNCHANGED driverVars
  BY <1>6 DEF BatchCancelled, InToolLoop
<1>7. CASE BatchSteered /\ UNCHANGED driverVars
  BY <1>7 DEF BatchSteered, AfterBatch, ApplySteering, InToolLoop
<1>8. CASE BatchPaused /\ UNCHANGED driverVars
  BY <1>8 DEF BatchPaused, InToolLoop
<1>9. CASE DispatchStep /\ UNCHANGED driverVars
  BY <1>9 DEF DispatchStep, AskUserQuestion, Dispatching, InToolLoop,
     Uninterrupted, OrdinaryCall, PreparedCall, ProposePlan, RefusedCall,
     TodoWrite
<1>10. CASE FinishCall /\ UNCHANGED driverVars
  BY <1>10 DEF FinishCall
<1>11. CASE RunawayStops /\ UNCHANGED driverVars
  BY <1>11 DEF RunawayStops
<1>12. CASE FinishUnknownCall /\ UNCHANGED driverVars
  BY <1>12 DEF FinishUnknownCall, AfterBatch
<1>13. CASE BatchFinished /\ UNCHANGED driverVars
  BY <1>13 DEF BatchFinished, AfterBatch
<1>14. CASE ToolStep /\ UNCHANGED driverVars
  BY <1>14 DEF ToolStep, ToolRedirected, ToolReturns
<1>15. CASE DriverStep
  BY <1>15 DEF DriverStep, CleanupStarts, FinishTerminal, SegmentPaused,
     PauseServed, StartSegment, TurnResumes, WaiterWakes
<1>16. CASE ClaimEvents
  BY <1>16 DEF ClaimEvents, EnsureStarted
<1>17. CASE RequestPause
  BY <1>17 DEF RequestPause, EnsureStarted
<1>18. CASE RequestCancel
  BY <1>18 DEF RequestCancel, Active, Yielded, CancelToken, CancelWaiter,
     EnsureStarted, InSegment
<1>19. CASE RequestSteering
  BY <1>19 DEF RequestSteering, EnsureStarted
<1>20. CASE Resume
  BY <1>20 DEF Resume, AnswerQuestions, Answer, ApprovePlan,
     DecidePermission, ResumeTurn, RevisePlan
<1>21. CASE Shutdown
  BY <1>21 DEF Shutdown, ShutdownDriver, CountShutdown, ShutdownSegment,
     ShutdownTool
<1> QED BY <1>1, <1>2, <1>3, <1>4, <1>5, <1>6, <1>7, <1>8, <1>9, <1>10,
    <1>11, <1>12, <1>13, <1>14, <1>15, <1>16, <1>17, <1>18, <1>19, <1>20,
    <1>21
    DEF Next, CoreStep, ExecStep, BatchStep, Control

\* The transcript never empties, and an open batch has one history per call.
LEMMA NextHistoryShape == Shape /\ Next => HistoryShape'
<1> SUFFICES ASSUME Shape, Next PROVE HistoryShape'
  OBVIOUS
<1> USE DEF Shape, TypeOK, Shape, ControlInv, PauseCoherence, BatchShape,
    BatchTypes, HistoryTypes, HistoryShape, turnVars, planVars, callVars,
    driverVars, execVars, Terminate, Fail, CancelSegment, Pause
<1>1. CASE LoopCancelled /\ UNCHANGED driverVars
  BY <1>1, CancelTyped DEF LoopCancelled
<1>2. CASE LoopSteered /\ UNCHANGED driverVars
  BY <1>2, MessagesTyped DEF LoopSteered, ApplySteering
<1>3. CASE LoopResumesBatch /\ UNCHANGED driverVars
  BY <1>3 DEF LoopResumesBatch
<1>4. CASE LoopIterates /\ UNCHANGED driverVars
  BY <1>4 DEF LoopIterates
<1>5. CASE PrepareFails /\ UNCHANGED driverVars
  BY <1>5 DEF PrepareFails
<1>6. CASE AttemptStarts /\ UNCHANGED driverVars
  BY <1>6 DEF AttemptStarts
<1>7. CASE BoundaryCancelled /\ UNCHANGED driverVars
  BY <1>7, CancelTyped DEF BoundaryCancelled
<1>8. CASE BoundarySteered /\ UNCHANGED driverVars
  BY <1>8, MessagesTyped DEF BoundarySteered, ApplySteering
<1>9. CASE BoundaryPaused /\ UNCHANGED driverVars
  BY <1>9 DEF BoundaryPaused
<1>10. CASE AttemptUnavailable /\ UNCHANGED driverVars
  BY <1>10 DEF AttemptUnavailable
<1>11. CASE AttemptFails /\ UNCHANGED driverVars
  BY <1>11 DEF AttemptFails
<1>12. CASE AttemptOverflows /\ UNCHANGED driverVars
  BY <1>12 DEF AttemptOverflows
<1>13. CASE OverflowRecovered /\ UNCHANGED driverVars
  BY <1>13 DEF OverflowRecovered
<1>14. CASE OverflowUnresolved /\ UNCHANGED driverVars
  BY <1>14 DEF OverflowUnresolved
<1>15. CASE ProviderCancels /\ UNCHANGED driverVars
  BY <1>15, CancelTyped DEF ProviderCancels
<1>16. CASE FinalAnswer /\ UNCHANGED driverVars
  BY <1>16, MessagesTyped DEF FinalAnswer
<1>17. CASE FinalBlocked /\ UNCHANGED driverVars
  BY <1>17 DEF FinalBlocked
<1>18. CASE TruncatedAnswer /\ UNCHANGED driverVars
  <2>1. CASE \E b \in Batches : OpenBatch(b, TRUE, "incomplete")
    BY <2>1, OpenBatchTyped DEF Callers
  <2>2. CASE Fail("max_output_tokens")
                 /\ messages' = Append(messages, Assistant(0))
    BY <2>2
  <2> QED BY <1>18, <2>1, <2>2 DEF TruncatedAnswer
<1>19. CASE ToolCallsAnswer /\ UNCHANGED driverVars
  BY <1>19, OpenBatchTyped, PlanNotAloneTyped DEF ToolCallsAnswer, Callers
<1>20. CASE BatchCancelled /\ UNCHANGED driverVars
  BY <1>20, CancelTyped DEF BatchCancelled
<1>21. CASE BatchSteered /\ UNCHANGED driverVars
  <2>1. messages' = Append(Append(messages, ToolResult(Calls)), User)
    BY <1>21 DEF BatchSteered, ApplySteering
  <2>2. ~InBatch'
    BY <1>21 DEF BatchSteered, AfterBatch
  <2>3. Calls \in Nat
    BY CallsTyped
  <2> HIDE DEF Calls
  <2> QED BY <2>1, <2>2, <2>3, MessagesTyped
<1>22. CASE BatchPaused /\ UNCHANGED driverVars
  BY <1>22, CallsTyped DEF BatchPaused, InToolLoop
<1>23. CASE RefusedCall /\ UNCHANGED driverVars
  BY <1>23, HistoryTyped, CallsTyped DEF RefusedCall, Dispatching,
     InToolLoop, Uninterrupted
<1>24. CASE AskUserQuestion /\ UNCHANGED driverVars
  BY <1>24, HistoryTyped, CallsTyped DEF AskUserQuestion, Dispatching,
     InToolLoop, Uninterrupted
<1>25. CASE TodoWrite /\ UNCHANGED driverVars
  BY <1>25, HistoryTyped, CallsTyped DEF TodoWrite, Dispatching, InToolLoop,
     Uninterrupted
<1>26. CASE ProposePlan /\ UNCHANGED driverVars
  BY <1>26, HistoryTyped, CallsTyped DEF ProposePlan, Dispatching,
     InToolLoop, Uninterrupted
<1>27. CASE OrdinaryCall /\ UNCHANGED driverVars
  BY <1>27, HistoryTyped, CallsTyped DEF OrdinaryCall, Dispatching,
     InToolLoop, Uninterrupted
<1>28. CASE PreparedCall /\ UNCHANGED driverVars
  BY <1>28, HistoryTyped, CallsTyped DEF PreparedCall, Dispatching,
     InToolLoop, Uninterrupted
<1>29. CASE FinishCall /\ UNCHANGED driverVars
  <2>1. Current \in 1..Len(tools)
    BY <1>29, CallsTyped DEF FinishCall
  <2>2. tools' = ToolFinished(tools, Current)
    BY <1>29 DEF FinishCall
  <2>3. messages' = messages /\ Calls' = Calls /\ InBatch
    BY <1>29 DEF FinishCall, NextCall
  <2> HIDE DEF Current, Calls
  <2> QED BY <2>1, <2>2, <2>3, HistoryTyped
<1>30. CASE RunawayStops /\ UNCHANGED driverVars
  BY <1>30, HistoryTyped, CloseTailTyped, CallsTyped, MessagesTyped DEF
     RunawayStops
<1>31. CASE FinishUnknownCall /\ UNCHANGED driverVars
  <2>1. messages' = Append(messages, ToolResult(Calls)) /\ ~InBatch'
    BY <1>31 DEF FinishUnknownCall, AfterBatch
  <2>2. Calls \in Nat
    BY CallsTyped
  <2> HIDE DEF Calls
  <2> QED BY <2>1, <2>2, MessagesTyped
<1>32. CASE BatchFinished /\ UNCHANGED driverVars
  BY <1>32, CallsTyped, MessagesTyped DEF BatchFinished, AfterBatch
<1>33. CASE ToolReturns /\ UNCHANGED driverVars
  BY <1>33 DEF ToolReturns
<1>34. CASE ToolRedirected /\ UNCHANGED driverVars
  <2>1. Current \in 1..Len(tools)
    BY <1>34, CallsTyped DEF ToolRedirected
  <2>2. tools' = tools \/ tools' = Rerun(Granted(tools, Current), Current)
    BY <1>34 DEF ToolRedirected
  <2>3. messages' = messages /\ Calls' = Calls /\ InBatch
    BY <1>34 DEF ToolRedirected
  <2> HIDE DEF Current, Calls
  <2> QED BY <2>1, <2>2, <2>3, EventsTyped
<1>35. CASE StartSegment
  BY <1>35, CancelTyped DEF StartSegment
<1>36. CASE SegmentPaused
  BY <1>36 DEF SegmentPaused, PauseServed
<1>37. CASE WaiterWakes
  BY <1>37 DEF WaiterWakes
<1>38. CASE TurnResumes
  BY <1>38 DEF TurnResumes
<1>39. CASE CleanupStarts
  BY <1>39 DEF CleanupStarts
<1>40. CASE FinishTerminal
  BY <1>40 DEF FinishTerminal
<1>41. CASE ClaimEvents
  BY <1>41 DEF ClaimEvents, EnsureStarted
<1>42. CASE RequestPause
  BY <1>42 DEF RequestPause, EnsureStarted
<1>43. CASE RequestCancel
  BY <1>43 DEF RequestCancel, CancelToken, CancelWaiter, EnsureStarted
<1>44. CASE RequestSteering
  BY <1>44 DEF RequestSteering, EnsureStarted
<1>45. CASE ResumeTurn
  BY <1>45 DEF ResumeTurn, Answer
<1>46. CASE AnswerQuestions
  <2>1. Current \in 1..Len(tools)
    BY <1>46, CallsTyped DEF AnswerQuestions, Resumable
  <2>2. tools' = ToolFinished(tools, Current)
    BY <1>46 DEF AnswerQuestions
  <2>3. messages' = messages /\ Calls' = Calls /\ InBatch
    BY <1>46 DEF AnswerQuestions, Resumable, NextCall
  <2> HIDE DEF Current, Calls
  <2> QED BY <2>1, <2>2, <2>3, HistoryTyped
<1>47. CASE DecidePermission
  <2>1. Current \in 1..Len(tools)
    BY <1>47, CallsTyped DEF DecidePermission, Resumable
  <2>2. tools' = tools \/ tools' = Granted(tools, Current)
    BY <1>47 DEF DecidePermission
  <2>3. messages' = messages /\ Calls' = Calls /\ InBatch
    BY <1>47 DEF DecidePermission, Resumable
  <2> HIDE DEF Current, Calls
  <2> QED BY <2>1, <2>2, <2>3, HistoryTyped
<1>48. CASE ApprovePlan
  <2>1. Current \in 1..Len(tools)
    BY <1>48, CallsTyped DEF ApprovePlan, Resumable
  <2>2. tools' = ToolFinished(tools, Current)
    BY <1>48 DEF ApprovePlan
  <2>3. messages' = messages /\ Calls' = Calls /\ InBatch
    BY <1>48 DEF ApprovePlan, Resumable, NextCall
  <2> HIDE DEF Current, Calls
  <2> QED BY <2>1, <2>2, <2>3, HistoryTyped
<1>49. CASE RevisePlan
  BY <1>49, HistoryTyped, CallsTyped DEF RevisePlan
<1>50. CASE ShutdownSegment
  BY <1>50, CancelTyped DEF ShutdownSegment, CountShutdown
<1>51. CASE ShutdownTool
  BY <1>51 DEF ShutdownTool, CountShutdown
<1>52. CASE ShutdownDriver
  BY <1>52 DEF ShutdownDriver, CountShutdown
<1> QED BY <1>1, <1>2, <1>3, <1>4, <1>5, <1>6, <1>7, <1>8, <1>9, <1>10,
    <1>11, <1>12, <1>13, <1>14, <1>15, <1>16, <1>17, <1>18, <1>19, <1>20,
    <1>21, <1>22, <1>23, <1>24, <1>25, <1>26, <1>27, <1>28, <1>29, <1>30,
    <1>31, <1>32, <1>33, <1>34, <1>35, <1>36, <1>37, <1>38, <1>39, <1>40,
    <1>41, <1>42, <1>43, <1>44, <1>45, <1>46, <1>47, <1>48, <1>49, <1>50,
    <1>51, <1>52
    DEF Next, CoreStep, ExecStep, BatchStep, Control, LoopStep, PrepareStep,
        BoundaryStep, AttemptStep, ResponseStep, DispatchStep, ToolStep,
        DriverStep, Resume, Shutdown

\* Every step changes the transcript in one of the shapes of TranscriptStep.
LEMMA NextTranscript == Shape /\ Next => TranscriptStep
<1> SUFFICES ASSUME Shape, Next PROVE TranscriptStep
  OBVIOUS
<1> USE DEF Shape, TypeOK, Shape, ControlInv, PauseCoherence, BatchShape,
    TranscriptStep, turnVars, planVars, callVars, driverVars, execVars,
    Terminate, Fail, CancelSegment, Pause
<1>1. CASE LoopCancelled /\ UNCHANGED driverVars
  BY <1>1, CancelTranscript DEF LoopCancelled
<1>2. CASE LoopSteered /\ UNCHANGED driverVars
  BY <1>2 DEF LoopSteered, ApplySteering
<1>3. CASE LoopResumesBatch /\ UNCHANGED driverVars
  BY <1>3 DEF LoopResumesBatch
<1>4. CASE LoopIterates /\ UNCHANGED driverVars
  BY <1>4 DEF LoopIterates
<1>5. CASE PrepareStep /\ UNCHANGED driverVars
  BY <1>5 DEF PrepareStep, AttemptStarts, PrepareFails
<1>6. CASE BoundaryCancelled /\ UNCHANGED driverVars
  BY <1>6, CancelTranscript DEF BoundaryCancelled
<1>7. CASE BoundarySteered /\ UNCHANGED driverVars
  BY <1>7 DEF BoundarySteered, ApplySteering
<1>8. CASE BoundaryPaused /\ UNCHANGED driverVars
  BY <1>8 DEF BoundaryPaused
<1>9. CASE AttemptStep /\ UNCHANGED driverVars
  BY <1>9 DEF AttemptStep, AttemptFails, AttemptOverflows,
     AttemptUnavailable, OverflowRecovered, OverflowUnresolved
<1>10. CASE ProviderCancels /\ UNCHANGED driverVars
  BY <1>10, CancelTranscript DEF ProviderCancels
<1>11. CASE FinalAnswer /\ UNCHANGED driverVars
  BY <1>11 DEF FinalAnswer, Responding, Undisturbed
<1>12. CASE FinalBlocked /\ UNCHANGED driverVars
  BY <1>12 DEF FinalBlocked, Responding, Undisturbed
<1>13. CASE TruncatedAnswer /\ UNCHANGED driverVars
  BY <1>13 DEF TruncatedAnswer, OpenBatch, Responding, Undisturbed
<1>14. CASE ToolCallsAnswer /\ UNCHANGED driverVars
  BY <1>14 DEF ToolCallsAnswer, OpenBatch, Responding, Undisturbed
<1>15. CASE BatchCancelled /\ UNCHANGED driverVars
  BY <1>15, CancelTranscript DEF BatchCancelled
<1>16. CASE BatchSteered /\ UNCHANGED driverVars
  BY <1>16 DEF BatchSteered, AfterBatch, ApplySteering, InToolLoop
<1>17. CASE BatchPaused /\ UNCHANGED driverVars
  BY <1>17 DEF BatchPaused, InToolLoop
<1>18. CASE DispatchStep /\ UNCHANGED driverVars
  BY <1>18 DEF DispatchStep, AskUserQuestion, Dispatching, InToolLoop,
     Uninterrupted, OrdinaryCall, PreparedCall, ProposePlan, RefusedCall,
     TodoWrite
<1>19. CASE FinishCall /\ UNCHANGED driverVars
  BY <1>19 DEF FinishCall, NextCall
<1>20. CASE RunawayStops /\ UNCHANGED driverVars
  BY <1>20 DEF RunawayStops
<1>21. CASE FinishUnknownCall /\ UNCHANGED driverVars
  BY <1>21 DEF FinishUnknownCall, AfterBatch
<1>22. CASE BatchFinished /\ UNCHANGED driverVars
  BY <1>22 DEF BatchFinished, AfterBatch
<1>23. CASE ToolStep /\ UNCHANGED driverVars
  BY <1>23 DEF ToolStep, ToolRedirected, ToolReturns
<1>24. CASE StartSegment
  <2>1. CASE CancelSegment
    BY <2>1, CancelTranscript
  <2>2. CASE UNCHANGED <<messages, cont, batch>>
    BY <2>2
  <2> QED BY <1>24, <2>1, <2>2 DEF StartSegment
<1>25. CASE SegmentPaused
  BY <1>25 DEF SegmentPaused, PauseServed
<1>26. CASE WaiterWakes
  BY <1>26 DEF WaiterWakes
<1>27. CASE TurnResumes
  BY <1>27 DEF TurnResumes
<1>28. CASE CleanupStarts
  BY <1>28 DEF CleanupStarts
<1>29. CASE FinishTerminal
  BY <1>29 DEF FinishTerminal
<1>30. CASE ClaimEvents
  BY <1>30 DEF ClaimEvents, EnsureStarted
<1>31. CASE RequestPause
  BY <1>31 DEF RequestPause, EnsureStarted
<1>32. CASE RequestCancel
  BY <1>32 DEF RequestCancel, CancelToken, CancelWaiter, EnsureStarted
<1>33. CASE RequestSteering
  BY <1>33 DEF RequestSteering, EnsureStarted
<1>34. CASE ResumeTurn
  BY <1>34 DEF ResumeTurn, Answer
<1>35. CASE AnswerQuestions
  BY <1>35 DEF AnswerQuestions, Answer, NextCall, Resumable
<1>36. CASE DecidePermission
  BY <1>36 DEF DecidePermission, Answer
<1>37. CASE ApprovePlan
  BY <1>37 DEF ApprovePlan, Answer, NextCall, Resumable
<1>38. CASE RevisePlan
  BY <1>38 DEF RevisePlan
<1>39. CASE Shutdown
  BY <1>39 DEF Shutdown, ShutdownDriver, CanShutDown, CountShutdown,
     ShutdownSegment, ClosedMessages, ShutdownTool
<1> QED BY <1>1, <1>2, <1>3, <1>4, <1>5, <1>6, <1>7, <1>8, <1>9, <1>10,
    <1>11, <1>12, <1>13, <1>14, <1>15, <1>16, <1>17, <1>18, <1>19, <1>20,
    <1>21, <1>22, <1>23, <1>24, <1>25, <1>26, <1>27, <1>28, <1>29, <1>30,
    <1>31, <1>32, <1>33, <1>34, <1>35, <1>36, <1>37, <1>38, <1>39
    DEF Next, CoreStep, ExecStep, BatchStep, Control, LoopStep, BoundaryStep,
        ResponseStep, DriverStep, Resume

\* A step of the driver is a step of the abstract life of the turn, or none.
LifecycleStep ==
    Lifecycle!Next \/ UNCHANGED <<phase, cancelled, result>>

\* Every step is a step of the abstract life of the turn, or a stutter.
LEMMA NextLifecycle == Shape /\ Next => LifecycleStep
<1> SUFFICES ASSUME Shape, Next PROVE LifecycleStep
  OBVIOUS
<1> USE DEF Shape, ControlInv, PauseCoherence, DriverShape, OutcomeShape,
    TypeOK, PointTypes, LifecycleStep, phase, Lifecycle!Next,
    Lifecycle!Pause, Lifecycle!Resume, Lifecycle!Cancel, Lifecycle!Finish,
    Lifecycle!Outcomes, turnVars, planVars, callVars, driverVars, execVars,
    Terminate, Fail, CancelSegment, Pause
<1>1. CASE LoopStep /\ UNCHANGED driverVars
  BY <1>1 DEF LoopStep, LoopCancelled, LoopIterates, LoopResumesBatch,
     LoopSteered, ApplySteering
<1>2. CASE PrepareStep /\ UNCHANGED driverVars
  BY <1>2 DEF PrepareStep, AttemptStarts, PrepareFails
<1>3. CASE BoundaryStep /\ UNCHANGED driverVars
  BY <1>3 DEF BoundaryStep, BoundaryCancelled, BoundaryPaused,
     BoundarySteered, ApplySteering
<1>4. CASE AttemptStep /\ UNCHANGED driverVars
  BY <1>4 DEF AttemptStep, AttemptFails, AttemptOverflows,
     AttemptUnavailable, OverflowRecovered, OverflowUnresolved
<1>5. CASE ResponseStep /\ UNCHANGED driverVars
  BY <1>5 DEF ResponseStep, FinalAnswer, Responding, Undisturbed,
     FinalBlocked, ProviderCancels, ToolCallsAnswer, OpenBatch,
     TruncatedAnswer
<1>6. CASE BatchCancelled /\ UNCHANGED driverVars
  BY <1>6 DEF BatchCancelled
<1>7. CASE BatchSteered /\ UNCHANGED driverVars
  BY <1>7 DEF BatchSteered, AfterBatch, ApplySteering
<1>8. CASE BatchPaused /\ UNCHANGED driverVars
  BY <1>8 DEF BatchPaused
<1>9. CASE DispatchStep /\ UNCHANGED driverVars
  BY <1>9 DEF DispatchStep, AskUserQuestion, OrdinaryCall, PreparedCall,
     ProposePlan, RefusedCall, TodoWrite
<1>10. CASE FinishCall /\ UNCHANGED driverVars
  BY <1>10 DEF FinishCall
<1>11. CASE RunawayStops /\ UNCHANGED driverVars
  BY <1>11 DEF RunawayStops
<1>12. CASE FinishUnknownCall /\ UNCHANGED driverVars
  BY <1>12 DEF FinishUnknownCall, AfterBatch
<1>13. CASE BatchFinished /\ UNCHANGED driverVars
  BY <1>13 DEF BatchFinished, AfterBatch
<1>14. CASE ToolStep /\ UNCHANGED driverVars
  BY <1>14 DEF ToolStep, ToolRedirected, ToolReturns
<1>15. CASE StartSegment
  BY <1>15 DEF StartSegment
<1>16. CASE SegmentPaused
  BY <1>16 DEF SegmentPaused, PauseServed
<1>17. CASE WaiterWakes
  BY <1>17 DEF WaiterWakes
<1>18. CASE TurnResumes
  BY <1>18 DEF TurnResumes
<1>19. CASE CleanupStarts
  BY <1>19 DEF CleanupStarts
<1>20. CASE FinishTerminal
  BY <1>20 DEF FinishTerminal
<1>21. CASE ClaimEvents
  BY <1>21 DEF ClaimEvents, EnsureStarted
<1>22. CASE RequestPause
  BY <1>22 DEF RequestPause, EnsureStarted
<1>23. CASE RequestCancel
  BY <1>23 DEF RequestCancel, Active, Yielded, CancelToken, CancelWaiter,
     EnsureStarted, InSegment
<1>24. CASE RequestSteering
  BY <1>24 DEF RequestSteering, EnsureStarted
<1>25. CASE Resume
  BY <1>25 DEF Resume, AnswerQuestions, Answer, ApprovePlan,
     DecidePermission, ResumeTurn, RevisePlan
<1>26. CASE Shutdown
  BY <1>26 DEF Shutdown, ShutdownDriver, CountShutdown, ShutdownSegment,
     ShutdownTool
<1> QED BY <1>1, <1>2, <1>3, <1>4, <1>5, <1>6, <1>7, <1>8, <1>9, <1>10,
    <1>11, <1>12, <1>13, <1>14, <1>15, <1>16, <1>17, <1>18, <1>19, <1>20,
    <1>21, <1>22, <1>23, <1>24, <1>25, <1>26
    DEF Next, CoreStep, ExecStep, BatchStep, Control, DriverStep

(***************************************************************************)
(* The invariant and the theorems.                                         *)
(***************************************************************************)
\* The invariant holds in the initial states.
LEMMA InitShape == Init => Shape /\ ToolProtocol
<1> SUFFICES ASSUME Init PROVE Shape /\ ToolProtocol
  OBVIOUS
<1> USE DEF Init, ExecInit
<1>1. PointTypes /\ FlagTypes /\ CounterTypes /\ DriverTypes
  BY DEF PointTypes, FlagTypes, CounterTypes, DriverTypes, Reasons, Asks
<1>2. BatchTypes
  BY NoneTyped DEF BatchTypes
<1>3. HistoryTypes
  BY DEF HistoryTypes, User, Messages, Facts, Budget
<1>4. ControlInv
  BY DEF ControlInv, PauseCoherence, BatchShape, DriverShape, OutcomeShape
<1>5. HistoryShape
  BY DEF HistoryShape
<1>6. ToolProtocol
  BY DEF ToolProtocol, User
<1> QED BY <1>1, <1>2, <1>3, <1>4, <1>5, <1>6 DEF Shape, TypeOK

\* The invariant is inductive.
LEMMA NextShape ==
    Shape /\ ToolProtocol /\ [Next]_vars => Shape' /\ ToolProtocol'
<1> SUFFICES ASSUME Shape, ToolProtocol, [Next]_vars
             PROVE  Shape' /\ ToolProtocol'
  OBVIOUS
<1>1. CASE Next
  <2>1. TypeOK'
    BY <1>1, NextPointTypes, NextFlagTypes, NextBatchTypes,
       NextHistoryTypes, NextDriverTypes DEF TypeOK, FlagsAndCounters
  <2>2. ControlInv'
    BY <1>1, NextPauses, NextBatchShape, NextDriverShape
    DEF ControlInv, PausesAndOutcome
  <2>3. HistoryShape'
    BY <1>1, NextHistoryShape
  <2>4. ToolProtocol'
    <3>1. HistoryTypes /\ HistoryShape /\ Calls \in Nat
      BY CallsTyped DEF Shape, TypeOK
    <3>2. TranscriptStep
      BY <1>1, NextTranscript
    <3> QED BY <3>1, <3>2, TranscriptStepKeepsProtocol
  <2> QED BY <2>1, <2>2, <2>3, <2>4 DEF Shape
<1>2. CASE UNCHANGED vars
  BY <1>2 DEF vars, execVars, driverVars, turnVars, planVars, Shape, TypeOK,
     PointTypes, FlagTypes, CounterTypes, BatchTypes, HistoryTypes,
     DriverTypes, ControlInv, PauseCoherence, BatchShape, DriverShape,
     OutcomeShape, HistoryShape, ToolProtocol
<1> QED BY <1>1, <1>2

\* The inductive invariant: types, the shape of the control, and the protocol.
THEOREM ShapeInvariant == Spec => [](Shape /\ ToolProtocol)
  BY InitShape, NextShape, PTL DEF Spec

\* Whatever the Provider answers, and whatever the user interface asks for
\* while the turn is suspended, every variable keeps its type and the index of
\* the open batch never runs past its calls.
THEOREM TypeCorrect == Spec => []TypeOK
<1>1. Shape => TypeOK
  BY DEF Shape
<1> QED BY <1>1, ShapeInvariant, PTL

\* Whatever pause, steering, cancellation, failure or shutdown interrupts a
\* batch, the transcript pairs each assistant message that carries tool calls
\* with one tool message of as many results.
THEOREM TranscriptWellFormed == Spec => []ToolProtocol
  BY ShapeInvariant, PTL

\* The waiter of the driver and the continuation of the Core always agree on
\* the pending pause, and no segment runs with a pause nobody answered.
THEOREM PausesAgree == Spec => []PauseCoherence
<1>1. Shape => PauseCoherence
  BY DEF Shape, ControlInv
<1> QED BY <1>1, ShapeInvariant, PTL

\* The driver implements the abstract life of a turn: a pause ends by one
\* answer or by cancellation, there is one outcome, and a turn whose
\* cancellation was accepted does not complete.
THEOREM LifecycleImplemented == Spec => ImplementsLifecycle
<1>1. Init => Lifecycle!Init
  BY DEF Init, ExecInit, Lifecycle!Init, phase
<1>2. Shape /\ [Next]_vars => [Lifecycle!Next]_(Lifecycle!lifecycleVars)
  <2> SUFFICES ASSUME Shape, [Next]_vars
               PROVE  [Lifecycle!Next]_(Lifecycle!lifecycleVars)
    OBVIOUS
  <2>1. CASE Next
    BY <2>1, NextLifecycle DEF LifecycleStep, Lifecycle!lifecycleVars
  <2>2. CASE UNCHANGED vars
    BY <2>2 DEF vars, execVars, driverVars, turnVars, phase,
       Lifecycle!lifecycleVars
  <2> QED BY <2>1, <2>2
<1> QED BY <1>1, <1>2, ShapeInvariant, PTL
        DEF Spec, ImplementsLifecycle, Lifecycle!Spec

(***************************************************************************)
(* What a turn does with its tool calls and with what the user asks of it: *)
(* the event history of each call, the authority every execution has, and  *)
(* the pause, steering and cancellation requests.                          *)
(***************************************************************************)

(***************************************************************************)
(* The inductive invariant.                                                *)
(***************************************************************************)
\* The current call was reported started: it is being handled, or it waits for
\* the user.
Taken == pc \in CallPoints \/ permit.prepared \/ cont.pause \in CallPauses

\* What the pause and the permit say about the current call.
PermitShape ==
    /\ InBatch => batch.calls \in Batches
    /\ permit.prepared =>
           /\ InBatch /\ Current <= Calls /\ ~batch.control
           /\ Kind = "read" \/ (Kind = "write" /\ mode = "DEFAULT")
           /\ pc \notin CallPoints \cup {"yield"}
           /\ permit.choice = "none" => cont.pause = "permission"
    /\ permit.choice = "approve" => permit.prepared
    /\ cont.pause = "permission" => permit.prepared
    /\ cont.pause = "input" => Kind = "ask"
    /\ cont.pause = "plan" => Kind = "plan" /\ Calls = 1
    /\ pc \in {"resuming", "resumed"} => cont.pause = NoPause
    /\ pc \in {"executing", "reexecuting"} =>
           /\ ~batch.control
           /\ Kind = "read" \/ (Kind = "write" /\ mode = "DEFAULT")

\* The history of the calls of an open batch, and of a closed one.
OpenCalls ==
    InBatch =>
        \A i \in 1..Len(tools) :
            /\ i < Current => tools[i].started = 1 /\ tools[i].finished = 1
            /\ i = Current => /\ tools[i].started = IF Taken THEN 1 ELSE 0
                              /\ tools[i].finished = 0
            /\ i > Current => tools[i].started = 0 /\ tools[i].finished = 0

ClosedCalls ==
    ~InBatch =>
        \A i \in 1..Len(tools) :
            /\ tools[i].started > 0 /\ tools[i].finished = 1
            /\ used.steers = 0 /\ PlanFree(Len(tools)) => tools[i].started = 1

\* Every execution has a grant of its own, and an approval not yet used is a
\* grant to spare.
GrantShape ==
    /\ \A i \in 1..Len(tools) : tools[i].runs <= tools[i].grants
    /\ permit.choice = "approve" =>
           tools[Current].runs < tools[Current].grants
    /\ pc \in {"executing", "reexecuting"} => tools[Current].runs > 0

\* Accepted steering is pending or in the conversation, unless the turn was
\* cancelled or failed; an accepted pause request is in the driver between
\* segments and in the pause token within one; a turn cancelled while it was
\* paused has no way but to its cancelled end.
SegmentPoints == SegmentAwaits \cup {"loop", "batch", "finish",
                                     "finishUnknown", "paused"}

SteeringShape ==
    /\ steering => used.steers > 0
    /\ ~cancelled /\ status \in {"running", "completed"} =>
           used.steers = facts.applied + (IF steering THEN 1 ELSE 0)
    /\ status # "running" => ~steering /\ pc \in {"terminal", "cleanup", "done"}
    /\ pauseRequested => ~steering

PauseShape ==
    asks.pause =>
        /\ pc \in SegmentPoints => pauseSignal
        /\ pc \in {"idle", "created", "waiting", "resuming", "resumed"} =>
               pauseRequested
        /\ pc = "streaming" => pauseRequested

CancelShape ==
    /\ asks.cancelPaused =>
           /\ cancelled
           /\ \/ pc \in {"waiting", "segment"}
              \/ pc \in {"terminal", "cleanup", "done"} /\ status = "cancelled"
    /\ result # "none" => result = status

AskShape == SteeringShape /\ PauseShape /\ CancelShape

Honest == PermitShape /\ OpenCalls /\ ClosedCalls /\ GrantShape /\ AskShape

USE DEF CallPoints, BatchPoints, ClosedPoints, CallPauses, AttemptPoints,
        ToolPoints, SegmentAwaits, DriverAwaits, YieldPoints, InternalPoints,
        Points, NoPause, NoCont, InBatch, Current, Calls, Stages, Callers,
        PauseKinds, Statuses, Failures, Modes, Waiters, CallKinds,
        SegmentPoints

\* Every step keeps count of the accepted steering.
LEMMA NextSteering == Shape /\ SteeringShape /\ Next => SteeringShape'
<1> SUFFICES ASSUME Shape, SteeringShape, Next PROVE SteeringShape'
  OBVIOUS
<1> USE DEF Shape, TypeOK, ControlInv, OutcomeShape, SteeringShape, PointTypes,
    FlagTypes, HistoryTypes, Facts, Budget, turnVars, planVars, callVars, driverVars,
    execVars, Terminate, Fail, CancelSegment, Pause
<1>1. CASE LoopStep /\ UNCHANGED driverVars
  BY <1>1 DEF LoopStep, LoopCancelled, LoopIterates, LoopResumesBatch,
     LoopSteered, ApplySteering
<1>2. CASE PrepareStep /\ UNCHANGED driverVars
  BY <1>2 DEF PrepareStep, AttemptStarts, PrepareFails, Undisturbed
<1>3. CASE BoundaryStep /\ UNCHANGED driverVars
  BY <1>3 DEF BoundaryStep, BoundaryCancelled, BoundaryPaused,
     BoundarySteered, ApplySteering
<1>4. CASE AttemptStep /\ UNCHANGED driverVars
  BY <1>4 DEF AttemptStep, AttemptFails, AttemptOverflows,
     AttemptUnavailable, OverflowRecovered, OverflowUnresolved
<1>5. CASE ResponseStep /\ UNCHANGED driverVars
  <2>1. CASE TruncatedAnswer \/ ToolCallsAnswer \/ FinalBlocked
    <3>1. /\ UNCHANGED <<used, facts, cancelled, pauseRequested>>
          /\ pc = "streaming" /\ status = "running"
      BY <1>5, <2>1 DEF TruncatedAnswer, ToolCallsAnswer, FinalBlocked,
         OpenBatch, Responding
    <3>2. CASE status' = status /\ steering' = steering
      BY <3>1, <3>2
    <3>3. CASE pc' = "terminal" /\ status' = "failed" /\ ~steering'
      BY <3>1, <3>3
    <3> QED BY <2>1, <3>2, <3>3
        DEF TruncatedAnswer, ToolCallsAnswer, FinalBlocked, OpenBatch
  <2>2. CASE ProviderCancels
    BY <1>5, <2>2 DEF ProviderCancels
  <2>3. CASE FinalAnswer
    BY <1>5, <2>3 DEF FinalAnswer, Responding, Undisturbed
  <2> QED BY <1>5, <2>1, <2>2, <2>3 DEF ResponseStep
<1>6. CASE BatchCancelled /\ UNCHANGED driverVars
  BY <1>6 DEF BatchCancelled, InToolLoop
<1>7. CASE BatchSteered /\ UNCHANGED driverVars
  BY <1>7 DEF BatchSteered, AfterBatch, ApplySteering, InToolLoop
<1>8. CASE BatchPaused /\ UNCHANGED driverVars
  BY <1>8 DEF BatchPaused, InToolLoop
<1>9. CASE DispatchStep /\ UNCHANGED driverVars
  BY <1>9 DEF DispatchStep, AskUserQuestion, Dispatching, InToolLoop,
     OrdinaryCall, PreparedCall, ProposePlan, RefusedCall, TodoWrite
<1>10. CASE FinishCall /\ UNCHANGED driverVars
  BY <1>10 DEF FinishCall
<1>11. CASE RunawayStops /\ UNCHANGED driverVars
  BY <1>11 DEF RunawayStops
<1>12. CASE FinishUnknownCall /\ UNCHANGED driverVars
  BY <1>12 DEF FinishUnknownCall, AfterBatch
<1>13. CASE BatchFinished /\ UNCHANGED driverVars
  BY <1>13 DEF BatchFinished, AfterBatch
<1>14. CASE ToolStep /\ UNCHANGED driverVars
  BY <1>14 DEF ToolStep, ToolRedirected, ToolReturns
<1>15. CASE StartSegment
  BY <1>15 DEF StartSegment
<1>16. CASE SegmentPaused
  BY <1>16 DEF SegmentPaused, PauseServed
<1>17. CASE WaiterWakes
  BY <1>17 DEF WaiterWakes
<1>18. CASE TurnResumes
  BY <1>18 DEF TurnResumes
<1>19. CASE CleanupStarts
  BY <1>19 DEF CleanupStarts
<1>20. CASE FinishTerminal
  BY <1>20 DEF FinishTerminal
<1>21. CASE ClaimEvents
  BY <1>21 DEF ClaimEvents, EnsureStarted
<1>22. CASE RequestPause
  BY <1>22 DEF RequestPause, EnsureStarted, MayPause, Active, Yielded,
     InSegment
<1>23. CASE RequestCancel
  BY <1>23 DEF RequestCancel, CancelToken, CancelWaiter, EnsureStarted, Active,
     Yielded, InSegment
<1>24. CASE RequestSteering
  BY <1>24 DEF RequestSteering, EnsureStarted, Active, Yielded
<1>25. CASE Resume
  BY <1>25 DEF Resume, AnswerQuestions, Answer, ApprovePlan,
     DecidePermission, ResumeTurn, RevisePlan
<1>26. CASE Shutdown
  BY <1>26 DEF Shutdown, ShutdownDriver, CountShutdown, ShutdownSegment,
     ShutdownTool
<1> QED BY <1>1, <1>2, <1>3, <1>4, <1>5, <1>6, <1>7, <1>8, <1>9, <1>10,
    <1>11, <1>12, <1>13, <1>14, <1>15, <1>16, <1>17, <1>18, <1>19, <1>20,
    <1>21, <1>22, <1>23, <1>24, <1>25, <1>26
    DEF Next, CoreStep, ExecStep, BatchStep, Control, DriverStep

\* An accepted pause request stays where the next check finds it.
LEMMA NextPauseAsked == Shape /\ SteeringShape /\ PauseShape /\ Next => PauseShape'
<1> SUFFICES ASSUME Shape, SteeringShape, PauseShape, Next PROVE PauseShape'
  OBVIOUS
<1> USE DEF Shape, TypeOK, ControlInv, DriverShape, SteeringShape, PauseShape,
    PointTypes, DriverTypes, Asks, turnVars, planVars, callVars, driverVars,
    execVars, Terminate, Fail, CancelSegment, Pause
<1>1. CASE LoopStep /\ UNCHANGED driverVars
  BY <1>1 DEF LoopStep, LoopCancelled, LoopIterates, LoopResumesBatch,
     LoopSteered, ApplySteering
<1>2. CASE PrepareStep /\ UNCHANGED driverVars
  BY <1>2 DEF PrepareStep, AttemptStarts, PrepareFails, Undisturbed
<1>3. CASE BoundaryStep /\ UNCHANGED driverVars
  BY <1>3 DEF BoundaryStep, BoundaryCancelled, BoundaryPaused,
     BoundarySteered, ApplySteering
<1>4. CASE AttemptStep /\ UNCHANGED driverVars
  BY <1>4 DEF AttemptStep, AttemptFails, AttemptOverflows,
     AttemptUnavailable, OverflowRecovered, OverflowUnresolved
<1>5. CASE ResponseStep /\ UNCHANGED driverVars
  BY <1>5 DEF ResponseStep, FinalAnswer, FinalBlocked, ProviderCancels,
     ToolCallsAnswer, OpenBatch, TruncatedAnswer, Responding, Undisturbed
<1>6. CASE BatchCancelled /\ UNCHANGED driverVars
  BY <1>6 DEF BatchCancelled, InToolLoop
<1>7. CASE BatchSteered /\ UNCHANGED driverVars
  BY <1>7 DEF BatchSteered, AfterBatch, ApplySteering, InToolLoop
<1>8. CASE BatchPaused /\ UNCHANGED driverVars
  BY <1>8 DEF BatchPaused, InToolLoop
<1>9. CASE DispatchStep /\ UNCHANGED driverVars
  BY <1>9 DEF DispatchStep, AskUserQuestion, Dispatching, InToolLoop,
     OrdinaryCall, PreparedCall, ProposePlan, RefusedCall, TodoWrite
<1>10. CASE FinishCall /\ UNCHANGED driverVars
  BY <1>10 DEF FinishCall
<1>11. CASE RunawayStops /\ UNCHANGED driverVars
  BY <1>11 DEF RunawayStops
<1>12. CASE FinishUnknownCall /\ UNCHANGED driverVars
  BY <1>12 DEF FinishUnknownCall, AfterBatch
<1>13. CASE BatchFinished /\ UNCHANGED driverVars
  BY <1>13 DEF BatchFinished, AfterBatch
<1>14. CASE ToolStep /\ UNCHANGED driverVars
  BY <1>14 DEF ToolStep, ToolRedirected, ToolReturns
<1>15. CASE StartSegment
  BY <1>15 DEF StartSegment
<1>16. CASE SegmentPaused
  BY <1>16 DEF SegmentPaused, PauseServed
<1>17. CASE WaiterWakes
  BY <1>17 DEF WaiterWakes
<1>18. CASE TurnResumes
  BY <1>18 DEF TurnResumes
<1>19. CASE CleanupStarts
  BY <1>19 DEF CleanupStarts
<1>20. CASE FinishTerminal
  BY <1>20 DEF FinishTerminal
<1>21. CASE ClaimEvents
  BY <1>21 DEF ClaimEvents, EnsureStarted
<1>22. CASE RequestPause
  BY <1>22 DEF RequestPause, EnsureStarted, MayPause, Active, Yielded,
     InSegment
<1>23. CASE RequestCancel
  BY <1>23 DEF RequestCancel, CancelToken, CancelWaiter, EnsureStarted, Active,
     Yielded, InSegment
<1>24. CASE RequestSteering
  BY <1>24 DEF RequestSteering, EnsureStarted, Active, Yielded
<1>25. CASE Resume
  BY <1>25 DEF Resume, AnswerQuestions, Answer, ApprovePlan,
     DecidePermission, ResumeTurn, RevisePlan
<1>26. CASE Shutdown
  BY <1>26 DEF Shutdown, ShutdownDriver, CountShutdown, ShutdownSegment,
     ShutdownTool
<1> QED BY <1>1, <1>2, <1>3, <1>4, <1>5, <1>6, <1>7, <1>8, <1>9, <1>10,
    <1>11, <1>12, <1>13, <1>14, <1>15, <1>16, <1>17, <1>18, <1>19, <1>20,
    <1>21, <1>22, <1>23, <1>24, <1>25, <1>26
    DEF Next, CoreStep, ExecStep, BatchStep, Control, DriverStep

\* A turn cancelled while it was paused stays on its way to the end.
LEMMA NextCancelPaused == Shape /\ CancelShape /\ Next => CancelShape'
<1> SUFFICES ASSUME Shape, CancelShape, Next PROVE CancelShape'
  OBVIOUS
<1> USE DEF Shape, TypeOK, ControlInv, DriverShape, OutcomeShape, CancelShape,
    PointTypes, DriverTypes, Asks, turnVars, planVars, callVars, driverVars,
    execVars, Terminate, Fail, CancelSegment, Pause
<1>1. CASE LoopStep /\ UNCHANGED driverVars
  BY <1>1 DEF LoopStep, LoopCancelled, LoopIterates, LoopResumesBatch,
     LoopSteered, ApplySteering
<1>2. CASE PrepareStep /\ UNCHANGED driverVars
  BY <1>2 DEF PrepareStep, AttemptStarts, PrepareFails, Undisturbed
<1>3. CASE BoundaryStep /\ UNCHANGED driverVars
  BY <1>3 DEF BoundaryStep, BoundaryCancelled, BoundaryPaused,
     BoundarySteered, ApplySteering
<1>4. CASE AttemptStep /\ UNCHANGED driverVars
  BY <1>4 DEF AttemptStep, AttemptFails, AttemptOverflows,
     AttemptUnavailable, OverflowRecovered, OverflowUnresolved
<1>5. CASE ResponseStep /\ UNCHANGED driverVars
  BY <1>5 DEF ResponseStep, FinalAnswer, FinalBlocked, ProviderCancels,
     ToolCallsAnswer, OpenBatch, TruncatedAnswer, Responding, Undisturbed
<1>6. CASE BatchCancelled /\ UNCHANGED driverVars
  BY <1>6 DEF BatchCancelled, InToolLoop
<1>7. CASE BatchSteered /\ UNCHANGED driverVars
  BY <1>7 DEF BatchSteered, AfterBatch, ApplySteering, InToolLoop
<1>8. CASE BatchPaused /\ UNCHANGED driverVars
  BY <1>8 DEF BatchPaused, InToolLoop
<1>9. CASE DispatchStep /\ UNCHANGED driverVars
  BY <1>9 DEF DispatchStep, AskUserQuestion, Dispatching, InToolLoop,
     OrdinaryCall, PreparedCall, ProposePlan, RefusedCall, TodoWrite
<1>10. CASE FinishCall /\ UNCHANGED driverVars
  BY <1>10 DEF FinishCall
<1>11. CASE RunawayStops /\ UNCHANGED driverVars
  BY <1>11 DEF RunawayStops
<1>12. CASE FinishUnknownCall /\ UNCHANGED driverVars
  BY <1>12 DEF FinishUnknownCall, AfterBatch
<1>13. CASE BatchFinished /\ UNCHANGED driverVars
  BY <1>13 DEF BatchFinished, AfterBatch
<1>14. CASE ToolStep /\ UNCHANGED driverVars
  BY <1>14 DEF ToolStep, ToolRedirected, ToolReturns
<1>15. CASE StartSegment
  BY <1>15 DEF StartSegment
<1>16. CASE SegmentPaused
  BY <1>16 DEF SegmentPaused, PauseServed
<1>17. CASE WaiterWakes
  BY <1>17 DEF WaiterWakes
<1>18. CASE TurnResumes
  BY <1>18 DEF TurnResumes
<1>19. CASE CleanupStarts
  BY <1>19 DEF CleanupStarts
<1>20. CASE FinishTerminal
  BY <1>20 DEF FinishTerminal
<1>21. CASE ClaimEvents
  BY <1>21 DEF ClaimEvents, EnsureStarted
<1>22. CASE RequestPause
  BY <1>22 DEF RequestPause, EnsureStarted, MayPause, Active, Yielded,
     InSegment
<1>23. CASE RequestCancel
  BY <1>23 DEF RequestCancel, CancelToken, CancelWaiter, EnsureStarted, Active,
     Yielded, InSegment
<1>24. CASE RequestSteering
  BY <1>24 DEF RequestSteering, EnsureStarted, Active, Yielded
<1>25. CASE Resume
  BY <1>25 DEF Resume, AnswerQuestions, Answer, ApprovePlan,
     DecidePermission, ResumeTurn, RevisePlan
<1>26. CASE Shutdown
  BY <1>26 DEF Shutdown, ShutdownDriver, CountShutdown, ShutdownSegment,
     ShutdownTool
<1> QED BY <1>1, <1>2, <1>3, <1>4, <1>5, <1>6, <1>7, <1>8, <1>9, <1>10,
    <1>11, <1>12, <1>13, <1>14, <1>15, <1>16, <1>17, <1>18, <1>19, <1>20,
    <1>21, <1>22, <1>23, <1>24, <1>25, <1>26
    DEF Next, CoreStep, ExecStep, BatchStep, Control, DriverStep

\* Every step keeps what the pause and the permit say of the current call.
LEMMA NextPermit == Shape /\ PermitShape /\ Next => PermitShape'
<1> SUFFICES ASSUME Shape, PermitShape, Next PROVE PermitShape'
  OBVIOUS
<1> USE DEF Shape, TypeOK, ControlInv, PauseCoherence, BatchShape, DriverShape,
    PermitShape, PointTypes, FlagTypes, BatchTypes, Batch, Permit,
    Continuation, Kind, NoBatch, NoPermit, turnVars, planVars, callVars, driverVars,
    execVars, Terminate, Fail, CancelSegment, Pause
<1>1. CASE LoopStep /\ UNCHANGED driverVars
  BY <1>1 DEF LoopStep, LoopCancelled, LoopIterates, LoopResumesBatch,
     LoopSteered, ApplySteering
<1>2. CASE PrepareStep /\ UNCHANGED driverVars
  BY <1>2 DEF PrepareStep, AttemptStarts, PrepareFails, Undisturbed
<1>3. CASE BoundaryStep /\ UNCHANGED driverVars
  BY <1>3 DEF BoundaryStep, BoundaryCancelled, BoundaryPaused,
     BoundarySteered, ApplySteering
<1>4. CASE AttemptStep /\ UNCHANGED driverVars
  BY <1>4 DEF AttemptStep, AttemptFails, AttemptOverflows,
     AttemptUnavailable, OverflowRecovered, OverflowUnresolved
<1>5. CASE ResponseStep /\ UNCHANGED driverVars
  BY <1>5 DEF ResponseStep, FinalAnswer, FinalBlocked, ProviderCancels,
     ToolCallsAnswer, OpenBatch, TruncatedAnswer, Responding, Undisturbed
<1>6. CASE BatchCancelled /\ UNCHANGED driverVars
  BY <1>6 DEF BatchCancelled, InToolLoop
<1>7. CASE BatchSteered /\ UNCHANGED driverVars
  BY <1>7 DEF BatchSteered, AfterBatch, ApplySteering, InToolLoop
<1>8. CASE BatchPaused /\ UNCHANGED driverVars
  BY <1>8 DEF BatchPaused, InToolLoop
<1>9. CASE RefusedCall /\ UNCHANGED driverVars
  BY <1>9 DEF RefusedCall, Dispatching, InToolLoop
<1>10. CASE AskUserQuestion /\ UNCHANGED driverVars
  BY <1>10 DEF AskUserQuestion, Dispatching, InToolLoop
<1>11. CASE TodoWrite /\ UNCHANGED driverVars
  BY <1>11 DEF TodoWrite, Dispatching, InToolLoop
<1>12. CASE ProposePlan /\ UNCHANGED driverVars
  BY <1>12 DEF ProposePlan, Dispatching, InToolLoop
<1>13. CASE OrdinaryCall /\ UNCHANGED driverVars
  BY <1>13 DEF OrdinaryCall, Dispatching, InToolLoop, PlanAllows
<1>14. CASE PreparedCall /\ UNCHANGED driverVars
  BY <1>14 DEF PreparedCall, Dispatching, InToolLoop
<1>15. CASE FinishCall /\ UNCHANGED driverVars
  BY <1>15 DEF FinishCall, NextCall
<1>16. CASE RunawayStops /\ UNCHANGED driverVars
  BY <1>16 DEF RunawayStops
<1>17. CASE FinishUnknownCall /\ UNCHANGED driverVars
  BY <1>17 DEF FinishUnknownCall, AfterBatch
<1>18. CASE BatchFinished /\ UNCHANGED driverVars
  BY <1>18 DEF BatchFinished, AfterBatch
<1>19. CASE ToolStep /\ UNCHANGED driverVars
  <2>1. CASE ToolReturns
    BY <1>19, <2>1 DEF ToolReturns
  <2>2. CASE ToolRedirected
    <3>1. /\ pc = "executing" /\ batch' = batch /\ mode' = mode
          /\ \/ pc' \in {"finish", "reexecuting"} /\ UNCHANGED <<cont, permit>>
             \/ /\ permit' = [prepared |-> TRUE, choice |-> "none"]
                /\ Pause("permission", "tool_batch", cont.iteration)
      BY <1>19, <2>2 DEF ToolRedirected
    <3> QED BY <3>1
  <2> QED BY <1>19, <2>1, <2>2 DEF ToolStep
<1>20. CASE StartSegment
  BY <1>20 DEF StartSegment
<1>21. CASE SegmentPaused
  BY <1>21 DEF SegmentPaused, PauseServed
<1>22. CASE WaiterWakes
  BY <1>22 DEF WaiterWakes
<1>23. CASE TurnResumes
  BY <1>23 DEF TurnResumes
<1>24. CASE CleanupStarts
  BY <1>24 DEF CleanupStarts
<1>25. CASE FinishTerminal
  BY <1>25 DEF FinishTerminal
<1>26. CASE ClaimEvents
  BY <1>26 DEF ClaimEvents, EnsureStarted
<1>27. CASE RequestPause
  BY <1>27 DEF RequestPause, EnsureStarted, MayPause, Active, Yielded,
     InSegment
<1>28. CASE RequestCancel
  BY <1>28 DEF RequestCancel, CancelToken, CancelWaiter, EnsureStarted, Active,
     Yielded, InSegment
<1>29. CASE RequestSteering
  BY <1>29 DEF RequestSteering, EnsureStarted, Active, Yielded
<1>30. CASE ResumeTurn
  BY <1>30 DEF ResumeTurn, Answer, Resumable
<1>31. CASE AnswerQuestions
  BY <1>31 DEF AnswerQuestions, Answer, Resumable, NextCall
<1>32. CASE DecidePermission
  BY <1>32 DEF DecidePermission, Answer, Resumable
<1>33. CASE ApprovePlan
  BY <1>33 DEF ApprovePlan, Answer, Resumable, NextCall
<1>34. CASE RevisePlan
  BY <1>34 DEF RevisePlan, Answer, Resumable
<1>35. CASE Shutdown
  BY <1>35 DEF Shutdown, ShutdownDriver, CountShutdown, ShutdownSegment,
     ShutdownTool
<1> QED BY <1>1, <1>2, <1>3, <1>4, <1>5, <1>6, <1>7, <1>8, <1>9, <1>10,
    <1>11, <1>12, <1>13, <1>14, <1>15, <1>16, <1>17, <1>18, <1>19, <1>20,
    <1>21, <1>22, <1>23, <1>24, <1>25, <1>26, <1>27, <1>28, <1>29, <1>30,
    <1>31, <1>32, <1>33, <1>34, <1>35
    DEF Next, CoreStep, ExecStep, BatchStep, Control, DriverStep,
        DispatchStep, Resume

(***************************************************************************)
(* What the recorders do to each call.                                     *)
(***************************************************************************)
\* One event of call i counts for call i and in one place.
LEMMA EventEffects ==
    ASSUME NEW ts \in Seq(CallHistory), NEW i \in 1..Len(ts), NEW j \in 1..Len(ts)
    PROVE  /\ ts[j] \in CallHistory
           /\ ToolStarted(ts, i)[j] =
                IF j = i THEN [ts[j] EXCEPT !.started = ts[j].started + 1] ELSE ts[j]
           /\ ToolFinished(ts, i)[j] =
                IF j = i THEN [ts[j] EXCEPT !.finished = ts[j].finished + 1] ELSE ts[j]
           /\ Granted(ts, i)[j] =
                IF j = i THEN [ts[j] EXCEPT !.grants = ts[j].grants + 1] ELSE ts[j]
           /\ Ran(ts, i)[j] =
                IF j = i THEN [ts[j] EXCEPT !.runs = ts[j].runs + 1] ELSE ts[j]
           /\ Rerun(ts, i) = IF cancelled THEN ts ELSE Ran(ts, i)
<1>1. ts[j] \in CallHistory
  BY UpdateTyped
<1>2. ASSUME NEW e PROVE [ts EXCEPT ![i] = e][j] = IF j = i THEN e ELSE ts[j]
  OBVIOUS
<1>3. ToolStarted(ts, i) = [ts EXCEPT ![i] = [ts[i] EXCEPT !.started = ts[i].started + 1]]
  BY DEF ToolStarted
<1>4. ToolFinished(ts, i) = [ts EXCEPT ![i] = [ts[i] EXCEPT !.finished = ts[i].finished + 1]]
  BY DEF ToolFinished
<1>5. Granted(ts, i) = [ts EXCEPT ![i] = [ts[i] EXCEPT !.grants = ts[i].grants + 1]]
  BY DEF Granted
<1>6. Ran(ts, i) = [ts EXCEPT ![i] = [ts[i] EXCEPT !.runs = ts[i].runs + 1]]
  BY DEF Ran
<1>7. Rerun(ts, i) = IF cancelled THEN ts ELSE Ran(ts, i)
  BY DEF Rerun
<1>8. ToolStarted(ts, i)[j] =
        IF j = i THEN [ts[j] EXCEPT !.started = ts[j].started + 1] ELSE ts[j]
  BY <1>2, <1>3
<1>9. ToolFinished(ts, i)[j] =
        IF j = i THEN [ts[j] EXCEPT !.finished = ts[j].finished + 1] ELSE ts[j]
  BY <1>2, <1>4
<1>10. Granted(ts, i)[j] =
        IF j = i THEN [ts[j] EXCEPT !.grants = ts[j].grants + 1] ELSE ts[j]
  BY <1>2, <1>5
<1>11. Ran(ts, i)[j] =
        IF j = i THEN [ts[j] EXCEPT !.runs = ts[j].runs + 1] ELSE ts[j]
  BY <1>2, <1>6
<1> QED BY <1>1, <1>7, <1>8, <1>9, <1>10, <1>11

\* The fields of a call after one event.
LEMMA CountEffects ==
    ASSUME NEW h \in CallHistory
    PROVE  /\ h.started \in Nat /\ h.finished \in Nat /\ h.runs \in Nat /\ h.grants \in Nat
           /\ LET s == [h EXCEPT !.started = h.started + 1] IN
                /\ s.started = h.started + 1 /\ s.finished = h.finished
                /\ s.runs = h.runs /\ s.grants = h.grants
           /\ LET f == [h EXCEPT !.finished = h.finished + 1] IN
                /\ f.started = h.started /\ f.finished = h.finished + 1
                /\ f.runs = h.runs /\ f.grants = h.grants
           /\ LET g == [h EXCEPT !.grants = h.grants + 1] IN
                /\ g.started = h.started /\ g.finished = h.finished
                /\ g.runs = h.runs /\ g.grants = h.grants + 1
           /\ LET r == [h EXCEPT !.runs = h.runs + 1] IN
                /\ r.started = h.started /\ r.finished = h.finished
                /\ r.runs = h.runs + 1 /\ r.grants = h.grants
  BY DEF CallHistory

\* Each recorder, field by field.
LEMMA StartedEffect ==
    ASSUME NEW ts \in Seq(CallHistory), NEW i \in 1..Len(ts), NEW j \in 1..Len(ts)
    PROVE  LET u == ToolStarted(ts, i)[j] IN
           /\ u.started = ts[j].started + (IF j = i THEN 1 ELSE 0)
           /\ u.finished = ts[j].finished
           /\ u.runs = ts[j].runs /\ u.grants = ts[j].grants
<1> DEFINE u == ToolStarted(ts, i)[j]
<1>1. /\ ts[j] \in CallHistory
      /\ u = IF j = i THEN [ts[j] EXCEPT !.started = ts[j].started + 1] ELSE ts[j]
  BY EventEffects, ZenonT(60)
<1> HIDE DEF u
<1>2. /\ u.started = ts[j].started + (IF j = i THEN 1 ELSE 0)
      /\ u.finished = ts[j].finished
      /\ u.runs = ts[j].runs /\ u.grants = ts[j].grants
  BY <1>1, CountEffects
<1> QED BY <1>2 DEF u

LEMMA FinishedEffect ==
    ASSUME NEW ts \in Seq(CallHistory), NEW i \in 1..Len(ts), NEW j \in 1..Len(ts)
    PROVE  LET u == ToolFinished(ts, i)[j] IN
           /\ u.started = ts[j].started
           /\ u.finished = ts[j].finished + (IF j = i THEN 1 ELSE 0)
           /\ u.runs = ts[j].runs /\ u.grants = ts[j].grants
<1> DEFINE u == ToolFinished(ts, i)[j]
<1>1. /\ ts[j] \in CallHistory
      /\ u = IF j = i THEN [ts[j] EXCEPT !.finished = ts[j].finished + 1] ELSE ts[j]
  BY EventEffects, ZenonT(60)
<1> HIDE DEF u
<1>2. /\ u.started = ts[j].started
      /\ u.finished = ts[j].finished + (IF j = i THEN 1 ELSE 0)
      /\ u.runs = ts[j].runs /\ u.grants = ts[j].grants
  BY <1>1, CountEffects
<1> QED BY <1>2 DEF u

LEMMA GrantedEffect ==
    ASSUME NEW ts \in Seq(CallHistory), NEW i \in 1..Len(ts), NEW j \in 1..Len(ts)
    PROVE  LET u == Granted(ts, i)[j] IN
           /\ u.started = ts[j].started /\ u.finished = ts[j].finished
           /\ u.runs = ts[j].runs
           /\ u.grants = ts[j].grants + (IF j = i THEN 1 ELSE 0)
<1> DEFINE u == Granted(ts, i)[j]
<1>1. /\ ts[j] \in CallHistory
      /\ u = IF j = i THEN [ts[j] EXCEPT !.grants = ts[j].grants + 1] ELSE ts[j]
  BY EventEffects, ZenonT(60)
<1> HIDE DEF u
<1>2. /\ u.started = ts[j].started /\ u.finished = ts[j].finished
      /\ u.runs = ts[j].runs
      /\ u.grants = ts[j].grants + (IF j = i THEN 1 ELSE 0)
  BY <1>1, CountEffects
<1> QED BY <1>2 DEF u

LEMMA RanEffect ==
    ASSUME NEW ts \in Seq(CallHistory), NEW i \in 1..Len(ts), NEW j \in 1..Len(ts)
    PROVE  LET u == Ran(ts, i)[j] IN
           /\ u.started = ts[j].started /\ u.finished = ts[j].finished
           /\ u.runs = ts[j].runs + (IF j = i THEN 1 ELSE 0)
           /\ u.grants = ts[j].grants
<1> DEFINE u == Ran(ts, i)[j]
<1>1. /\ ts[j] \in CallHistory
      /\ u = IF j = i THEN [ts[j] EXCEPT !.runs = ts[j].runs + 1] ELSE ts[j]
  BY EventEffects, ZenonT(40)
<1> HIDE DEF u
<1>2. /\ u.started = ts[j].started /\ u.finished = ts[j].finished
      /\ u.runs = ts[j].runs + (IF j = i THEN 1 ELSE 0)
      /\ u.grants = ts[j].grants
  BY <1>1, CountEffects
<1> QED BY <1>2 DEF u

\* Taking a call reports it started; executing it on the spot is one grant and
\* one run.
LEMMA TakenEffects ==
    ASSUME NEW ts \in Seq(CallHistory), NEW i \in 1..Len(ts)
    PROVE  LET u == Ran(Granted(ToolStarted(ts, i), i), i) IN
           /\ Len(ToolStarted(ts, i)) = Len(ts) /\ Len(u) = Len(ts)
           /\ \A j \in 1..Len(ts) :
                /\ u[j].started = ts[j].started + (IF j = i THEN 1 ELSE 0)
                /\ u[j].finished = ts[j].finished
                /\ u[j].runs = ts[j].runs + (IF j = i THEN 1 ELSE 0)
                /\ u[j].grants = ts[j].grants + (IF j = i THEN 1 ELSE 0)
<1> DEFINE st == ToolStarted(ts, i)
           gr == Granted(st, i)
           rn == Ran(gr, i)
<1>1. st \in Seq(CallHistory) /\ Len(st) = Len(ts)
  BY HistoryTyped
<1>2. \A j \in 1..Len(ts) :
         /\ st[j].started = ts[j].started + (IF j = i THEN 1 ELSE 0)
         /\ st[j].finished = ts[j].finished
         /\ st[j].runs = ts[j].runs /\ st[j].grants = ts[j].grants
  BY StartedEffect
<1> HIDE DEF st
<1>3. gr \in Seq(CallHistory) /\ Len(gr) = Len(st)
  BY <1>1, HistoryTyped
<1>4. \A j \in 1..Len(st) :
         /\ gr[j].started = st[j].started /\ gr[j].finished = st[j].finished
         /\ gr[j].runs = st[j].runs
         /\ gr[j].grants = st[j].grants + (IF j = i THEN 1 ELSE 0)
  BY <1>1, GrantedEffect
<1> HIDE DEF gr
<1>5. Len(rn) = Len(gr)
  BY <1>1, <1>3, HistoryTyped
<1>6. \A j \in 1..Len(gr) :
         /\ rn[j].started = gr[j].started /\ rn[j].finished = gr[j].finished
         /\ rn[j].runs = gr[j].runs + (IF j = i THEN 1 ELSE 0)
         /\ rn[j].grants = gr[j].grants
  BY <1>1, <1>3, RanEffect
<1> HIDE DEF rn
<1>7. /\ Len(st) = Len(ts) /\ Len(rn) = Len(ts)
      /\ \A j \in 1..Len(ts) :
            /\ rn[j].started = ts[j].started + (IF j = i THEN 1 ELSE 0)
            /\ rn[j].finished = ts[j].finished
            /\ rn[j].runs = ts[j].runs + (IF j = i THEN 1 ELSE 0)
            /\ rn[j].grants = ts[j].grants + (IF j = i THEN 1 ELSE 0)
  BY <1>1, <1>2, <1>3, <1>4, <1>5, <1>6
<1> QED BY <1>7 DEF st, gr, rn

\* A redirected execution is one grant, and one run unless the turn is cancelled.
LEMMA RedirectedEffects ==
    ASSUME NEW ts \in Seq(CallHistory), NEW i \in 1..Len(ts)
    PROVE  LET u == Rerun(Granted(ts, i), i) IN
           /\ Len(u) = Len(ts)
           /\ \A j \in 1..Len(ts) :
                /\ u[j].started = ts[j].started
                /\ u[j].finished = ts[j].finished
                /\ u[j].runs = ts[j].runs + (IF j = i /\ ~cancelled THEN 1 ELSE 0)
                /\ u[j].grants = ts[j].grants + (IF j = i THEN 1 ELSE 0)
<1> DEFINE gr == Granted(ts, i)
           rn == Ran(gr, i)
           u  == Rerun(gr, i)
<1>1. gr \in Seq(CallHistory) /\ Len(gr) = Len(ts)
  BY HistoryTyped
<1>2. \A j \in 1..Len(ts) :
         /\ gr[j].started = ts[j].started /\ gr[j].finished = ts[j].finished
         /\ gr[j].runs = ts[j].runs
         /\ gr[j].grants = ts[j].grants + (IF j = i THEN 1 ELSE 0)
  BY GrantedEffect
<1> HIDE DEF gr
<1>3. Len(rn) = Len(gr)
  BY <1>1, HistoryTyped
<1>4. \A j \in 1..Len(gr) :
         /\ rn[j].started = gr[j].started /\ rn[j].finished = gr[j].finished
         /\ rn[j].runs = gr[j].runs + (IF j = i THEN 1 ELSE 0)
         /\ rn[j].grants = gr[j].grants
  BY <1>1, RanEffect
<1>5. u = IF cancelled THEN gr ELSE rn
  BY DEF Rerun
<1> HIDE DEF rn, u
<1>6. \A j \in 1..Len(ts) : ts[j].runs \in Nat
  BY UpdateTyped, CountEffects
<1>7. CASE cancelled
  <2>1. u = gr
    BY <1>5, <1>7
  <2>2. /\ Len(u) = Len(ts)
        /\ \A j \in 1..Len(ts) :
              /\ u[j].started = ts[j].started /\ u[j].finished = ts[j].finished
              /\ u[j].runs = ts[j].runs + (IF j = i /\ ~cancelled THEN 1 ELSE 0)
              /\ u[j].grants = ts[j].grants + (IF j = i THEN 1 ELSE 0)
    BY <1>1, <1>2, <1>6, <1>7, <2>1
  <2> QED BY <2>2 DEF gr, u
<1>8. CASE ~cancelled
  <2>1. u = rn
    BY <1>5, <1>8
  <2>2. /\ Len(u) = Len(ts)
        /\ \A j \in 1..Len(ts) :
              /\ u[j].started = ts[j].started /\ u[j].finished = ts[j].finished
              /\ u[j].runs = ts[j].runs + (IF j = i /\ ~cancelled THEN 1 ELSE 0)
              /\ u[j].grants = ts[j].grants + (IF j = i THEN 1 ELSE 0)
    BY <1>1, <1>2, <1>3, <1>4, <1>8, <2>1
  <2> QED BY <2>2 DEF gr, u
<1> QED BY <1>7, <1>8

\* Closing the rest of a batch leaves the earlier calls alone, and finishes the
\* others; only a first call known to be started is not reported started.
LEMMA CloseTailEffects ==
    ASSUME NEW ts \in Seq(CallHistory), NEW i \in Nat, NEW b \in BOOLEAN,
           NEW j \in 1..Len(ts)
    PROVE  LET c == CloseTail(ts, i, b)[j] IN
           /\ j < i => c = ts[j]
           /\ j >= i => /\ c.started = IF j = i /\ b THEN ts[j].started
                                       ELSE ts[j].started + 1
                        /\ c.finished = ts[j].finished + 1
           /\ c.runs = ts[j].runs /\ c.grants = ts[j].grants
<1> DEFINE c(k) == [ts[k] EXCEPT
                       !.started = IF k = i /\ b THEN ts[k].started
                                   ELSE ts[k].started + 1,
                       !.finished = ts[k].finished + 1]
<1>1. ts[j] \in CallHistory
  BY UpdateTyped
<1>2. CloseTail(ts, i, b) = [k \in 1..Len(ts) |-> IF k < i THEN ts[k] ELSE c(k)]
  BY DEF CloseTail
<1>3. ASSUME NEW h \in CallHistory, NEW n
      PROVE  LET d == [h EXCEPT !.started = n, !.finished = h.finished + 1] IN
             /\ d.started = n /\ d.finished = h.finished + 1
             /\ d.runs = h.runs /\ d.grants = h.grants
  BY DEF CallHistory
<1>4. /\ c(j).started = IF j = i /\ b THEN ts[j].started ELSE ts[j].started + 1
      /\ c(j).finished = ts[j].finished + 1
      /\ c(j).runs = ts[j].runs /\ c(j).grants = ts[j].grants
  BY <1>1, <1>3
<1> HIDE DEF c
<1>5. CloseTail(ts, i, b)[j] = IF j < i THEN ts[j] ELSE c(j)
  BY <1>2
<1>6. CASE j < i
  BY <1>5, <1>6
<1>7. CASE ~(j < i)
  BY <1>4, <1>5, <1>7
<1> QED BY <1>6, <1>7

\* No event but a run and a grant changes the runs and the grants of a call.
SameCounts(ts, us) ==
    /\ Len(us) = Len(ts)
    /\ \A j \in 1..Len(ts) : us[j].runs = ts[j].runs /\ us[j].grants = ts[j].grants

LEMMA EventsKeepCounts ==
    ASSUME NEW ts \in Seq(CallHistory)
    PROVE  /\ SameCounts(ts, ts)
           /\ \A i \in Nat, b \in BOOLEAN : SameCounts(ts, CloseTail(ts, i, b))
           /\ \A i \in 1..Len(ts) :
                /\ SameCounts(ts, ToolStarted(ts, i))
                /\ SameCounts(ts, ToolFinished(ts, i))
                /\ SameCounts(ts, CloseTail(ToolFinished(ts, i), i + 1, FALSE))
<1>1. ASSUME NEW us \in Seq(CallHistory), NEW i \in Nat, NEW b \in BOOLEAN
      PROVE  SameCounts(us, CloseTail(us, i, b))
  <2>1. Len(CloseTail(us, i, b)) = Len(us)
    BY CloseTailTyped
  <2>2. ASSUME NEW j \in 1..Len(us)
        PROVE  /\ CloseTail(us, i, b)[j].runs = us[j].runs
               /\ CloseTail(us, i, b)[j].grants = us[j].grants
    BY CloseTailEffects
  <2>3. QED
    BY <2>1, <2>2 DEF SameCounts
<1>2. ASSUME NEW i \in 1..Len(ts)
      PROVE  /\ SameCounts(ts, ToolStarted(ts, i))
             /\ SameCounts(ts, ToolFinished(ts, i))
             /\ SameCounts(ts, CloseTail(ToolFinished(ts, i), i + 1, FALSE))
  <2> DEFINE us == ToolStarted(ts, i)
             vs == ToolFinished(ts, i)
  <2>0. ASSUME NEW j \in 1..Len(ts)
        PROVE  /\ us[j].runs = ts[j].runs /\ us[j].grants = ts[j].grants
               /\ vs[j].runs = ts[j].runs /\ vs[j].grants = ts[j].grants
    <3>1. /\ ts[j] \in CallHistory
          /\ us[j] = IF j = i THEN [ts[j] EXCEPT !.started = ts[j].started + 1]
                     ELSE ts[j]
          /\ vs[j] = IF j = i THEN [ts[j] EXCEPT !.finished = ts[j].finished + 1]
                     ELSE ts[j]
      BY EventEffects, ZenonT(40)
    <3> HIDE DEF us, vs
    <3> QED BY <3>1, CountEffects
  <2>1. SameCounts(ts, ToolStarted(ts, i))
    BY <2>0, HistoryTyped DEF SameCounts
  <2>2. SameCounts(ts, ToolFinished(ts, i))
    BY <2>0, HistoryTyped DEF SameCounts
  <2>3. ToolFinished(ts, i) \in Seq(CallHistory) /\ i + 1 \in Nat
    BY HistoryTyped
  <2>4. SameCounts(ToolFinished(ts, i), CloseTail(ToolFinished(ts, i), i + 1, FALSE))
    BY <1>1, <2>3
  <2> QED BY <2>1, <2>2, <2>4 DEF SameCounts
<1> QED BY <1>1, <1>2 DEF SameCounts

(***************************************************************************)
(* All a step may do to the calls of a batch.                              *)
(***************************************************************************)
SameBatch == /\ InBatch /\ InBatch'
             /\ batch'.calls = batch.calls /\ batch'.next = batch.next

CallsUntouched ==
    /\ tools' = tools /\ InBatch' = InBatch
    /\ used'.steers = 0 => used.steers = 0
    /\ InBatch => SameBatch /\ Taken' = Taken

\* A call is run between two calls of the batch, by a turn nobody has stopped.
Undeterred == ~cancelled /\ ~pauseSignal /\ pc \in {"batch", "yield"}

CallTaken ==
    /\ SameBatch /\ Current <= Calls /\ ~Taken /\ Taken'
    /\ \/ tools' = ToolStarted(tools, Current)
       \/ /\ Undeterred /\ PlanAllows
          /\ tools' = Ran(Granted(ToolStarted(tools, Current), Current), Current)

CallGoesOn ==
    /\ SameBatch /\ Current <= Calls /\ Taken /\ Taken'
    /\ \/ tools' = tools
       \/ tools' = Granted(tools, Current)
       \/ /\ Undeterred /\ permit.choice = "approve"
          /\ tools' = Ran(tools, Current)
       \/ /\ pc = "executing"
          /\ tools' = Rerun(Granted(tools, Current), Current)

CallFinished ==
    /\ InBatch /\ InBatch' /\ Current <= Calls /\ Taken /\ ~Taken'
    /\ batch'.next = batch.next + 1
    /\ tools' = ToolFinished(tools, Current)

BatchOpened ==
    /\ ~InBatch /\ InBatch' /\ ~Taken' /\ batch'.next = 0
    /\ tools' = [i \in 1..Calls' |-> FreshCall]

\* The rest of an open batch is closed: after its last call, for steering, for
\* a cancellation between two calls, after the current call, or when the only
\* call is answered.
BatchClosed ==
    /\ InBatch /\ ~InBatch'
    /\ used'.steers = 0 => used.steers = 0
    /\ \/ Current > Calls /\ tools' = tools
       \/ used.steers > 0 /\ tools' = CloseTail(tools, Current, FALSE)
       \/ pc \notin CallPoints /\ tools' = CancelledTools
       \/ /\ Taken /\ Current <= Calls
          /\ tools' = CloseTail(ToolFinished(tools, Current), Current + 1, FALSE)
       \/ /\ Taken /\ Current = 1 /\ Calls = 1
          /\ tools' = ToolFinished(tools, Current)

CallStep == \/ CallsUntouched \/ CallTaken \/ CallGoesOn \/ CallFinished
            \/ BatchOpened \/ BatchClosed

\* Counting another request leaves the steering count alone.
LEMMA SteersKept ==
    ASSUME NEW u \in Budget
    PROVE  /\ [u EXCEPT !.pauses = u.pauses + 1].steers = u.steers
           /\ [u EXCEPT !.retries = u.retries + 1].steers = u.steers
           /\ [u EXCEPT !.redirects = u.redirects + 1].steers = u.steers
           /\ [u EXCEPT !.shutdowns = u.shutdowns + 1].steers = u.steers
           /\ [u EXCEPT !.steers = u.steers + 1].steers # 0
  BY DEF Budget

\* A cancelled segment closes the open batch, and no other.
LEMMA CancelClosesCalls ==
    CancelSegment /\ pc \notin CallPoints => CallsUntouched \/ BatchClosed
<1> SUFFICES ASSUME CancelSegment, pc \notin CallPoints
             PROVE  CallsUntouched \/ BatchClosed
  OBVIOUS
<1>1. ~InBatch' /\ tools' = CancelledTools /\ used' = used
  BY DEF CancelSegment, Terminate
<1>2. CASE InBatch
  BY <1>1, <1>2 DEF BatchClosed
<1>3. CASE ~InBatch
  BY <1>1, <1>3 DEF CallsUntouched, CancelledTools
<1> QED BY <1>2, <1>3

\* Every step changes the calls in one of these ways.
LEMMA NextCallStep == Shape /\ SteeringShape /\ PermitShape /\ Next => CallStep
<1> SUFFICES ASSUME Shape, SteeringShape, PermitShape, Next PROVE CallStep
  OBVIOUS
<1>0. used \in Budget
  BY DEF Shape, TypeOK, HistoryTypes
<1> USE DEF Shape, TypeOK, ControlInv, PauseCoherence, BatchShape,
    DriverShape, BatchTypes, Batch, Continuation, PermitShape, SameBatch,
    Taken, turnVars, planVars, callVars, driverVars, execVars
<1>1. ASSUME LoopCancelled, UNCHANGED driverVars PROVE CallsUntouched \/ BatchClosed
  BY <1>1, CancelClosesCalls DEF LoopCancelled
<1>2. ASSUME LoopSteered, UNCHANGED driverVars PROVE CallsUntouched
  BY <1>2 DEF CallsUntouched, LoopSteered, ApplySteering
<1>3. ASSUME LoopResumesBatch, UNCHANGED driverVars PROVE CallsUntouched
  BY <1>3 DEF CallsUntouched, LoopResumesBatch
<1>4. ASSUME LoopIterates, UNCHANGED driverVars PROVE CallsUntouched
  BY <1>4 DEF CallsUntouched, LoopIterates, Pause
<1>5. ASSUME PrepareStep, UNCHANGED driverVars PROVE CallsUntouched
  BY <1>5 DEF CallsUntouched, PrepareStep, AttemptStarts,
     PrepareFails, Fail, Terminate
<1>6. ASSUME BoundaryCancelled, UNCHANGED driverVars PROVE CallsUntouched \/ BatchClosed
  BY <1>6, CancelClosesCalls DEF BoundaryCancelled
<1>7. ASSUME BoundarySteered, UNCHANGED driverVars PROVE CallsUntouched
  BY <1>7 DEF CallsUntouched, BoundarySteered, ApplySteering
<1>8. ASSUME BoundaryPaused, UNCHANGED driverVars PROVE CallsUntouched
  BY <1>8 DEF CallsUntouched, BoundaryPaused, Pause
<1>9. ASSUME AttemptUnavailable, UNCHANGED driverVars PROVE CallsUntouched
  BY <1>9, <1>0, SteersKept DEF CallsUntouched, AttemptUnavailable,
     Pause
<1>10. ASSUME AttemptFails, UNCHANGED driverVars PROVE CallsUntouched
  BY <1>10 DEF CallsUntouched, AttemptFails, Fail, Terminate
<1>11. ASSUME AttemptOverflows, UNCHANGED driverVars PROVE CallsUntouched
  BY <1>11 DEF CallsUntouched, AttemptOverflows, Fail, Terminate
<1>12. ASSUME OverflowRecovered, UNCHANGED driverVars PROVE CallsUntouched
  BY <1>12 DEF CallsUntouched, OverflowRecovered
<1>13. ASSUME OverflowUnresolved, UNCHANGED driverVars PROVE CallsUntouched
  BY <1>13 DEF CallsUntouched, OverflowUnresolved, Fail, Terminate
<1>14. ASSUME ProviderCancels, UNCHANGED driverVars PROVE CallsUntouched \/ BatchClosed
  BY <1>14, CancelClosesCalls DEF ProviderCancels, Responding
<1>15. ASSUME FinalAnswer, UNCHANGED driverVars PROVE CallsUntouched
  BY <1>15 DEF CallsUntouched, FinalAnswer, Responding, Terminate
<1>16. ASSUME FinalBlocked, UNCHANGED driverVars PROVE CallsUntouched
  BY <1>16 DEF CallsUntouched, FinalBlocked, Responding, Fail,
     Terminate
<1>17. ASSUME TruncatedAnswer, UNCHANGED driverVars PROVE BatchOpened \/ CallsUntouched
  BY <1>17 DEF BatchOpened, CallsUntouched, TruncatedAnswer,
     OpenBatch, Responding, Fail, Terminate, NoPermit
<1>18. ASSUME ToolCallsAnswer, UNCHANGED driverVars PROVE BatchOpened
  BY <1>18 DEF BatchOpened, ToolCallsAnswer, OpenBatch, Responding,
     NoPermit
<1>19. ASSUME BatchCancelled, UNCHANGED driverVars PROVE CallsUntouched \/ BatchClosed
  BY <1>19, CancelClosesCalls DEF BatchCancelled, InToolLoop
<1>20. ASSUME BatchSteered, UNCHANGED driverVars PROVE BatchClosed
  <2>1. ~InBatch'
    BY <1>20 DEF BatchSteered, AfterBatch, Fail, Terminate
  <2>2. InBatch /\ used.steers > 0 /\ used' = used
    BY <1>20 DEF BatchSteered, InToolLoop, SteeringShape
  <2> QED BY <1>20, <2>1, <2>2 DEF BatchClosed, BatchSteered
<1>21. ASSUME BatchPaused, UNCHANGED driverVars PROVE CallsUntouched
  BY <1>21 DEF CallsUntouched, BatchPaused, InToolLoop, Pause
<1>22. ASSUME RefusedCall, UNCHANGED driverVars PROVE CallTaken
  BY <1>22 DEF CallTaken, RefusedCall, Dispatching, InToolLoop
<1>23. ASSUME AskUserQuestion, UNCHANGED driverVars PROVE CallTaken
  BY <1>23 DEF CallTaken, AskUserQuestion, Dispatching, InToolLoop,
     Pause
<1>24. ASSUME TodoWrite, UNCHANGED driverVars PROVE CallTaken
  BY <1>24 DEF CallTaken, TodoWrite, Dispatching, InToolLoop
<1>25. ASSUME ProposePlan, UNCHANGED driverVars PROVE CallTaken
  BY <1>25 DEF CallTaken, ProposePlan, Dispatching, InToolLoop, Pause
<1>26. ASSUME OrdinaryCall, UNCHANGED driverVars PROVE CallTaken
  BY <1>26 DEF CallTaken, OrdinaryCall, Dispatching, InToolLoop, Pause,
     Undeterred, Uninterrupted
<1>27. ASSUME PreparedCall, UNCHANGED driverVars PROVE CallGoesOn
  BY <1>27 DEF CallGoesOn, PreparedCall, Dispatching, InToolLoop, Approved,
     Undeterred, Uninterrupted
<1>28. ASSUME FinishCall, UNCHANGED driverVars PROVE CallFinished
  BY <1>28 DEF CallFinished, FinishCall, NextCall
<1>29. ASSUME RunawayStops, UNCHANGED driverVars PROVE BatchClosed
  BY <1>29 DEF BatchClosed, RunawayStops, Fail, Terminate
<1>30. ASSUME FinishUnknownCall, UNCHANGED driverVars PROVE BatchClosed
  <2>1. ~InBatch'
    BY <1>30 DEF FinishUnknownCall, AfterBatch, Fail, Terminate
  <2> QED BY <1>30, <2>1 DEF BatchClosed, FinishUnknownCall
<1>31. ASSUME BatchFinished, UNCHANGED driverVars PROVE BatchClosed
  <2>1. ~InBatch'
    BY <1>31 DEF BatchFinished, AfterBatch, Pause, Fail, Terminate
  <2> QED BY <1>31, <2>1 DEF BatchClosed, BatchFinished
<1>32. ASSUME ToolReturns, UNCHANGED driverVars PROVE CallGoesOn
  BY <1>32 DEF CallGoesOn, ToolReturns
<1>33. ASSUME ToolRedirected, UNCHANGED driverVars PROVE CallGoesOn
  BY <1>33 DEF CallGoesOn, ToolRedirected, Pause
<1>34. ASSUME StartSegment PROVE CallsUntouched \/ BatchClosed
  BY <1>34, CancelClosesCalls DEF CallsUntouched, StartSegment
<1>35. ASSUME SegmentPaused PROVE CallsUntouched
  BY <1>35 DEF CallsUntouched, SegmentPaused
<1>36. ASSUME WaiterWakes PROVE CallsUntouched
  BY <1>36 DEF CallsUntouched, WaiterWakes
<1>37. ASSUME TurnResumes PROVE CallsUntouched
  BY <1>37 DEF CallsUntouched, TurnResumes
<1>38. ASSUME CleanupStarts PROVE CallsUntouched
  BY <1>38 DEF CallsUntouched, CleanupStarts
<1>39. ASSUME FinishTerminal PROVE CallsUntouched
  BY <1>39 DEF CallsUntouched, FinishTerminal
<1>40. ASSUME ClaimEvents PROVE CallsUntouched
  BY <1>40 DEF CallsUntouched, ClaimEvents, EnsureStarted
<1>41. ASSUME RequestPause PROVE CallsUntouched
  BY <1>41, <1>0, SteersKept DEF CallsUntouched, RequestPause, EnsureStarted
<1>42. ASSUME RequestCancel PROVE CallsUntouched
  BY <1>42 DEF CallsUntouched, RequestCancel, CancelToken, EnsureStarted
<1>43. ASSUME RequestSteering PROVE CallsUntouched
  BY <1>43, <1>0, SteersKept DEF CallsUntouched, RequestSteering,
     EnsureStarted
<1>44. ASSUME ResumeTurn PROVE CallsUntouched
  BY <1>44 DEF CallsUntouched, ResumeTurn, Answer, Resumable
<1>45. ASSUME AnswerQuestions PROVE CallFinished
  BY <1>45 DEF CallFinished, AnswerQuestions, Answer, Resumable,
     NextCall
<1>46. ASSUME DecidePermission PROVE CallGoesOn
  <2>1. permit.prepared /\ permit'.prepared
    BY <1>46 DEF DecidePermission, Permit
  <2>2. SameBatch /\ Current <= Calls
    BY <1>46, <2>1 DEF DecidePermission, Answer
  <2> QED BY <1>46, <2>1, <2>2 DEF CallGoesOn, DecidePermission
<1>47. ASSUME ApprovePlan PROVE CallFinished
  BY <1>47 DEF CallFinished, ApprovePlan, Answer, Resumable, NextCall
<1>48. ASSUME RevisePlan PROVE BatchClosed
  <2>1. InBatch /\ ~InBatch' /\ Taken /\ used' = used
    BY <1>48 DEF RevisePlan, Resumable
  <2>2. cont.pause = "plan" /\ Calls = 1 /\ Current <= Calls
    BY <1>48 DEF RevisePlan, Resumable
  <2>3. Current = 1
    BY <2>2
  <2> QED BY <1>48, <2>1, <2>2, <2>3 DEF BatchClosed, RevisePlan
<1>49. ASSUME ShutdownSegment PROVE CallsUntouched \/ BatchClosed
  BY <1>49, <1>0, SteersKept DEF CallsUntouched, BatchClosed,
     ShutdownSegment, CountShutdown, CancelledTools, Terminate
<1>50. ASSUME ShutdownTool PROVE CallGoesOn
  BY <1>50 DEF CallGoesOn, ShutdownTool
<1>51. ASSUME ShutdownDriver PROVE CallsUntouched
  BY <1>51, <1>0, SteersKept DEF CallsUntouched, ShutdownDriver, CountShutdown
<1> QED BY <1>1, <1>2, <1>3, <1>4, <1>5, <1>6, <1>7, <1>8, <1>9, <1>10,
    <1>11, <1>12, <1>13, <1>14, <1>15, <1>16, <1>17, <1>18, <1>19, <1>20,
    <1>21, <1>22, <1>23, <1>24, <1>25, <1>26, <1>27, <1>28, <1>29, <1>30,
    <1>31, <1>32, <1>33, <1>34, <1>35, <1>36, <1>37, <1>38, <1>39, <1>40,
    <1>41, <1>42, <1>43, <1>44, <1>45, <1>46, <1>47, <1>48, <1>49, <1>50,
    <1>51
    DEF Next, CoreStep, ExecStep, BatchStep, Control, LoopStep, PrepareStep,
        BoundaryStep, AttemptStep, ResponseStep, DispatchStep, ToolStep,
        DriverStep, Resume, Shutdown, CallStep

\* Closing every call from the current one on leaves a closed history, when the
\* current call is not reported started twice or a request or a plan excuses it.
LEMMA TailClosesCalls ==
    ASSUME NEW ts \in Seq(CallHistory), NEW k \in Nat \ {0}, NEW b \in BOOLEAN,
           NEW taken \in BOOLEAN, NEW excused \in BOOLEAN,
           b \/ ~taken \/ excused, b => taken,
           \A i \in 1..Len(ts) :
              /\ i < k => ts[i].started = 1 /\ ts[i].finished = 1
              /\ i = k => /\ ts[i].started = IF taken THEN 1 ELSE 0
                          /\ ts[i].finished = 0
              /\ i > k => ts[i].started = 0 /\ ts[i].finished = 0
    PROVE  LET us == CloseTail(ts, k, b) IN
           /\ Len(us) = Len(ts)
           /\ \A i \in 1..Len(us) :
                 /\ us[i].started > 0 /\ us[i].finished = 1
                 /\ ~excused => us[i].started = 1
<1> DEFINE us == CloseTail(ts, k, b)
<1>1. Len(us) = Len(ts)
  BY CloseTailTyped
<1>2. ASSUME NEW i \in 1..Len(ts)
      PROVE  /\ i < k => us[i] = ts[i]
             /\ i >= k => /\ us[i].started = IF i = k /\ b THEN ts[i].started
                                            ELSE ts[i].started + 1
                          /\ us[i].finished = ts[i].finished + 1
  BY CloseTailEffects
<1> HIDE DEF us
<1>3. ASSUME NEW i \in 1..Len(ts)
      PROVE  /\ us[i].started > 0 /\ us[i].finished = 1
             /\ ~excused => us[i].started = 1
  <2>1. CASE i < k
    BY <1>2, <2>1
  <2>2. CASE i = k
    BY <1>2, <2>2
  <2>3. CASE i > k
    BY <1>2, <2>3
  <2> QED BY <2>1, <2>2, <2>3
<1> QED BY <1>1, <1>3 DEF us

\* Finishing the current call and then closing the calls after it does, too.
LEMMA FinishClosesCalls ==
    ASSUME NEW ts \in Seq(CallHistory), NEW k \in 1..Len(ts),
           \A i \in 1..Len(ts) :
              /\ i < k => ts[i].started = 1 /\ ts[i].finished = 1
              /\ i = k => ts[i].started = 1 /\ ts[i].finished = 0
              /\ i > k => ts[i].started = 0 /\ ts[i].finished = 0
    PROVE  LET us == CloseTail(ToolFinished(ts, k), k + 1, FALSE) IN
           /\ Len(us) = Len(ts)
           /\ \A i \in 1..Len(us) : us[i].started = 1 /\ us[i].finished = 1
<1> DEFINE fin == ToolFinished(ts, k)
<1>1. fin \in Seq(CallHistory) /\ Len(fin) = Len(ts)
  BY HistoryTyped
<1>2. \A i \in 1..Len(ts) :
         /\ fin[i].started = ts[i].started
         /\ fin[i].finished = ts[i].finished + (IF i = k THEN 1 ELSE 0)
  BY FinishedEffect
<1> HIDE DEF fin
<1> DEFINE us == CloseTail(fin, k + 1, FALSE)
           n  == k + 1
<1>3. \A i \in 1..Len(fin) :
         /\ i < n => fin[i].started = 1 /\ fin[i].finished = 1
         /\ i = n => fin[i].started = 0 /\ fin[i].finished = 0
         /\ i > n => fin[i].started = 0 /\ fin[i].finished = 0
  BY <1>1, <1>2
<1>4. n \in Nat \ {0} /\ us = CloseTail(fin, n, FALSE)
  OBVIOUS
<1> HIDE DEF n, us
<1>5. /\ Len(us) = Len(fin)
      /\ \A i \in 1..Len(us) : us[i].started = 1 /\ us[i].finished = 1
  <2>1. /\ Len(us) = Len(fin)
        /\ \A i \in 1..Len(fin) :
              /\ i < n => us[i] = fin[i]
              /\ i >= n => /\ us[i].started = fin[i].started + 1
                           /\ us[i].finished = fin[i].finished + 1
    BY <1>1, <1>4, CloseTailTyped, CloseTailEffects, ZenonT(40)
  <2>2. ASSUME NEW i \in 1..Len(fin)
        PROVE  us[i].started = 1 /\ us[i].finished = 1
    <3>1. i \in Nat /\ n \in Nat
      BY <1>1, <1>4
    <3>2. CASE i < n
      BY <1>3, <2>1, <3>2
    <3>3. CASE i = n \/ i > n
      BY <1>3, <2>1, <3>1, <3>3
    <3> QED BY <3>1, <3>2, <3>3
  <2> QED BY <2>1, <2>2
<1> QED BY <1>1, <1>5 DEF fin, us

\* Every way a step changes the calls keeps their histories: a call of a closed
\* batch was started once, or the user steered, or the batch holds the plan
\* whose review was cancelled.
LEMMA CallStepKeepsCalls ==
    ASSUME BatchTypes, HistoryTypes, HistoryShape, HistoryTypes', HistoryShape',
           BatchShape, PermitShape, OpenCalls, ClosedCalls, CallStep
    PROVE  OpenCalls' /\ ClosedCalls'
<1>1. /\ tools \in Seq(CallHistory) /\ Len(tools) \in Nat
      /\ InBatch => Len(tools) = Calls
      /\ batch.next \in Nat /\ Current \in Nat \ {0} /\ Calls \in Nat
      /\ used.steers \in Nat /\ used'.steers \in Nat
      /\ InBatch' => Len(tools') = Calls'
  <2>1. tools \in Seq(CallHistory) /\ (InBatch => Len(tools) = Calls)
    BY DEF HistoryTypes, HistoryShape
  <2>2. used.steers \in Nat /\ used'.steers \in Nat
    BY DEF HistoryTypes, Budget
  <2>3. batch.next \in Nat /\ Current \in Nat \ {0} /\ Calls \in Nat
    BY CallsTyped DEF BatchTypes, Batch
  <2>4. InBatch' => Len(tools') = Calls'
    BY DEF HistoryShape
  <2>5. Len(tools) \in Nat
    BY <2>1
  <2> QED BY <2>1, <2>2, <2>3, <2>4, <2>5
<1>2. /\ Current = batch.next + 1 /\ Current' = batch'.next + 1
      /\ Calls = Len(batch.calls) /\ Calls' = Len(batch'.calls)
  OBVIOUS
<1>3. Taken \in BOOLEAN /\ permit.prepared \in BOOLEAN
  BY DEF Taken, BatchTypes, Permit
<1> HIDE DEF Current, Calls, InBatch
<1>4. CASE CallsUntouched
  <2>1. OpenCalls'
    BY <1>2, <1>4 DEF CallsUntouched, SameBatch, OpenCalls
  <2>2. ClosedCalls'
    BY <1>4 DEF CallsUntouched, ClosedCalls
  <2> QED BY <2>1, <2>2
<1>5. CASE CallTaken
  <2>1. Current \in 1..Len(tools) /\ InBatch /\ InBatch' /\ Current' = Current
    BY <1>1, <1>2, <1>5 DEF CallTaken, SameBatch
  <2>2. /\ Len(tools') = Len(tools)
        /\ \A i \in 1..Len(tools) :
              /\ tools'[i].started = tools[i].started + (IF i = Current THEN 1 ELSE 0)
              /\ tools'[i].finished = tools[i].finished
    BY <1>1, <1>5, <2>1, TakenEffects, StartedEffect DEF CallTaken
  <2>3. ~Taken /\ Taken'
    BY <1>5 DEF CallTaken
  <2> HIDE DEF Taken
  <2> QED BY <1>1, <2>1, <2>2, <2>3 DEF OpenCalls, ClosedCalls
<1>6. CASE CallGoesOn
  <2>1. Current \in 1..Len(tools) /\ InBatch /\ InBatch' /\ Current' = Current
    BY <1>1, <1>2, <1>6 DEF CallGoesOn, SameBatch
  <2>2. /\ Len(tools') = Len(tools)
        /\ \A i \in 1..Len(tools) : /\ tools'[i].started = tools[i].started
                                    /\ tools'[i].finished = tools[i].finished
    <3>1. CASE tools' = tools
      BY <3>1
    <3>2. CASE tools' = Granted(tools, Current)
      BY <1>1, <2>1, <3>2, GrantedEffect, HistoryTyped
    <3>3. CASE tools' = Ran(tools, Current)
      BY <1>1, <2>1, <3>3, RanEffect, HistoryTyped
    <3>4. CASE tools' = Rerun(Granted(tools, Current), Current)
      BY <1>1, <2>1, <3>4, RedirectedEffects
    <3> QED BY <1>6, <3>1, <3>2, <3>3, <3>4 DEF CallGoesOn
  <2>3. Taken /\ Taken'
    BY <1>6 DEF CallGoesOn
  <2> HIDE DEF Taken
  <2> QED BY <1>1, <2>1, <2>2, <2>3 DEF OpenCalls, ClosedCalls
<1>7. CASE CallFinished
  <2>1. /\ Current \in 1..Len(tools) /\ InBatch /\ InBatch'
        /\ Current' = Current + 1 /\ Taken /\ ~Taken'
    BY <1>1, <1>2, <1>7 DEF CallFinished
  <2>2. tools' = ToolFinished(tools, Current)
    BY <1>7 DEF CallFinished
  <2>3. Len(tools') = Len(tools)
    BY <1>1, <2>1, <2>2, HistoryTyped
  <2>4. \A i \in 1..Len(tools) :
           /\ tools'[i].started = tools[i].started
           /\ tools'[i].finished = tools[i].finished + (IF i = Current THEN 1 ELSE 0)
    BY <1>1, <2>1, <2>2, FinishedEffect
  <2> HIDE DEF Taken
  <2> QED BY <1>1, <2>1, <2>3, <2>4 DEF OpenCalls, ClosedCalls
<1>8. CASE BatchOpened
  <2>1. /\ InBatch' /\ Current' = 1 /\ ~Taken' /\ Len(tools') = Calls'
        /\ tools' = [i \in 1..Calls' |-> FreshCall]
    BY <1>1, <1>2, <1>8 DEF BatchOpened
  <2>2. \A i \in 1..Len(tools') : tools'[i].started = 0 /\ tools'[i].finished = 0
    BY <2>1 DEF FreshCall
  <2> HIDE DEF Taken
  <2>3. \A i \in 1..Len(tools') : ~(i < Current')
    BY <2>1
  <2> QED BY <2>1, <2>2, <2>3 DEF OpenCalls, ClosedCalls
<1>9. CASE BatchClosed
  <2>1. /\ InBatch /\ ~InBatch' /\ (used'.steers = 0 => used.steers = 0)
        /\ Len(tools) = Calls
    BY <1>1, <1>9 DEF BatchClosed
  <2>2. OpenCalls'
    BY <2>1 DEF OpenCalls
  <2>3. \A i \in 1..Len(tools) :
            /\ i < Current => tools[i].started = 1 /\ tools[i].finished = 1
            /\ i = Current => /\ tools[i].started = IF Taken THEN 1 ELSE 0
                              /\ tools[i].finished = 0
            /\ i > Current => tools[i].started = 0 /\ tools[i].finished = 0
    BY <2>1 DEF OpenCalls
  <2> DEFINE excused == ~(used.steers = 0 /\ PlanFree(Len(tools)))
  <2>4. excused \in BOOLEAN
    OBVIOUS
  <2> HIDE DEF Taken
  <2>5. SUFFICES /\ Len(tools') = Len(tools)
                 /\ \A i \in 1..Len(tools') :
                       /\ tools'[i].started > 0 /\ tools'[i].finished = 1
                       /\ ~excused => tools'[i].started = 1
    BY <2>1, <2>2 DEF ClosedCalls, PlanFree
  <2> HIDE DEF excused
  <2>6. CASE Current > Calls /\ tools' = tools
    BY <1>1, <2>1, <2>3, <2>6
  <2>7. CASE used.steers > 0 /\ tools' = CloseTail(tools, Current, FALSE)
    <3>1. excused
      BY <1>1, <2>7 DEF excused
    <3> DEFINE b == FALSE
    <3>2. b \in BOOLEAN /\ ~b /\ tools' = CloseTail(tools, Current, b)
      BY <2>7
    <3> HIDE DEF b
    <3> QED BY <1>1, <1>3, <2>3, <2>4, <3>1, <3>2, TailClosesCalls, SMTT(30)
  <2>8. CASE pc \notin CallPoints /\ tools' = CancelledTools
    <3> DEFINE b == permit.prepared \/ cont.pause \in {"input", "permission"}
    <3>1. tools' = CloseTail(tools, Current, b)
      BY <2>1, <2>8 DEF CancelledTools
    <3>2. b \in BOOLEAN /\ (b => Taken)
      BY <1>3 DEF Taken
    <3>3. b \/ ~Taken \/ excused
      <4> SUFFICES ASSUME ~b, Taken PROVE excused
        OBVIOUS
      <4>1. cont.pause = "plan"
        BY <2>8 DEF Taken
      <4>2. batch.calls \in Batches /\ batch.calls[Current] = "plan" /\ Calls = 1
        BY <2>1, <4>1 DEF PermitShape, Kind
      <4>3. Current \in DOMAIN batch.calls
        <5>1. Current <= Calls
          BY <4>1, <2>1 DEF BatchShape
        <5> QED BY <1>1, <1>2, <4>2, <5>1, BatchesAssumption
      <4>4. ~PlanFree(Len(tools))
        BY <1>2, <2>1, <4>2, <4>3 DEF PlanFree
      <4> QED BY <4>4 DEF excused
    <3> HIDE DEF b
    <3> QED BY <1>1, <1>3, <2>3, <2>4, <3>1, <3>2, <3>3, TailClosesCalls, SMTT(30)
  <2>9. CASE /\ Taken /\ Current <= Calls
             /\ tools' = CloseTail(ToolFinished(tools, Current), Current + 1, FALSE)
    <3>1. Current \in 1..Len(tools)
      BY <1>1, <2>1, <2>9
    <3>2. \A i \in 1..Len(tools) :
             /\ i < Current => tools[i].started = 1 /\ tools[i].finished = 1
             /\ i = Current => tools[i].started = 1 /\ tools[i].finished = 0
             /\ i > Current => tools[i].started = 0 /\ tools[i].finished = 0
      BY <2>3, <2>9
    <3>3. /\ Len(tools') = Len(tools)
          /\ \A i \in 1..Len(tools') :
                tools'[i].started = 1 /\ tools'[i].finished = 1
      BY <1>1, <2>9, <3>1, <3>2, FinishClosesCalls
    <3> QED BY <3>3
  <2>10. CASE /\ Taken /\ Current = 1 /\ Calls = 1
              /\ tools' = ToolFinished(tools, Current)
    <3>1. Current \in 1..Len(tools) /\ Len(tools) = 1
      BY <2>1, <2>10
    <3>2. /\ Len(tools') = Len(tools)
          /\ \A i \in 1..Len(tools) :
                /\ tools'[i].started = tools[i].started
                /\ tools'[i].finished =
                     tools[i].finished + (IF i = Current THEN 1 ELSE 0)
      BY <1>1, <2>10, <3>1, HistoryTyped, FinishedEffect
    <3> QED BY <1>1, <2>3, <2>10, <3>1, <3>2
  <2> QED BY <1>9, <2>6, <2>7, <2>8, <2>9, <2>10 DEF BatchClosed
<1> QED BY <1>4, <1>5, <1>6, <1>7, <1>8, <1>9 DEF CallStep

(***************************************************************************)
(* The authority of each execution.                                        *)
(***************************************************************************)
Executing == pc \in {"executing", "reexecuting"}

\* Where an approval and an execution come from.
ApprovalKept ==
    permit'.choice = "approve" =>
        /\ SameBatch /\ Current <= Calls
        /\ \/ permit.choice = "approve" /\ tools' = tools
           \/ permit.prepared /\ tools' = Granted(tools, Current)

ExecutionGranted ==
    Executing' =>
        /\ SameBatch /\ Current <= Calls
        /\ \/ Executing /\ tools' = tools
           \/ pc = "executing" /\ tools' = Rerun(Granted(tools, Current), Current)
           \/ tools' = Ran(Granted(ToolStarted(tools, Current), Current), Current)
           \/ tools' = Ran(tools, Current)

PermitStep == ApprovalKept /\ ExecutionGranted

\* A step that ends the segment or the batch leaves no approval behind.
LEMMA EndsWithoutApproval ==
    ASSUME permit' = NoPermit, pc' \notin {"executing", "reexecuting"}
    PROVE  PermitStep
  BY DEF PermitStep, ApprovalKept, ExecutionGranted, Executing, NoPermit

\* Every step keeps an approval for the call it was given for, or uses it.
LEMMA NextPermitStep == Shape /\ PermitShape /\ Next => PermitStep
<1> SUFFICES ASSUME Shape, PermitShape, Next PROVE PermitStep
  OBVIOUS
<1> USE DEF Shape, TypeOK, ControlInv, PauseCoherence, BatchShape,
    PermitShape, SameBatch, Executing, PermitStep, ApprovalKept,
    ExecutionGranted, BatchTypes, Permit, NoPermit,
    turnVars, planVars, callVars, driverVars, execVars
<1>1. CASE LoopCancelled /\ UNCHANGED driverVars
  BY <1>1 DEF LoopCancelled, Fail, Terminate, CancelSegment
<1>2. CASE LoopSteered /\ UNCHANGED driverVars
  BY <1>2 DEF LoopSteered, ApplySteering
<1>3. CASE LoopResumesBatch /\ UNCHANGED driverVars
  BY <1>3 DEF LoopResumesBatch, Batch
<1>4. CASE LoopIterates /\ UNCHANGED driverVars
  BY <1>4 DEF LoopIterates, Pause
<1>5. CASE PrepareStep /\ UNCHANGED driverVars
  BY <1>5 DEF PrepareStep, AttemptStarts, PrepareFails, Fail, Terminate
<1>6. CASE BoundaryStep /\ UNCHANGED driverVars
  BY <1>6 DEF BoundaryStep, BoundaryCancelled, BoundarySteered,
     BoundaryPaused, ApplySteering, Pause, CancelSegment, Terminate
<1>7. CASE AttemptStep /\ UNCHANGED driverVars
  BY <1>7 DEF AttemptStep, AttemptUnavailable, AttemptFails,
     AttemptOverflows, OverflowRecovered, OverflowUnresolved, Pause, Fail,
     Terminate
<1>8. CASE ResponseStep /\ UNCHANGED driverVars
  BY <1>8 DEF ResponseStep, ProviderCancels, FinalAnswer, FinalBlocked,
     TruncatedAnswer, ToolCallsAnswer, OpenBatch, Responding, Fail,
     Terminate, CancelSegment
<1>9. CASE BatchCancelled /\ UNCHANGED driverVars
  BY <1>9 DEF BatchCancelled, CancelSegment, Terminate
<1>10. CASE BatchSteered /\ UNCHANGED driverVars
  <2>1. permit' = NoPermit /\ pc' \in {"terminal", "loop"}
    BY <1>10 DEF BatchSteered, AfterBatch, Fail, Terminate
  <2> QED BY <2>1, EndsWithoutApproval
<1>11. CASE BatchPaused /\ UNCHANGED driverVars
  BY <1>11 DEF BatchPaused, InToolLoop, Pause
<1>12. CASE RefusedCall /\ UNCHANGED driverVars
  BY <1>12 DEF RefusedCall, Dispatching, InToolLoop
<1>13. CASE AskUserQuestion /\ UNCHANGED driverVars
  BY <1>13 DEF AskUserQuestion, Dispatching, InToolLoop, Kind, Pause
<1>14. CASE TodoWrite /\ UNCHANGED driverVars
  BY <1>14 DEF TodoWrite, Dispatching, InToolLoop, Kind
<1>15. CASE ProposePlan /\ UNCHANGED driverVars
  BY <1>15 DEF ProposePlan, Dispatching, InToolLoop, Kind, Pause
<1>16. CASE OrdinaryCall /\ UNCHANGED driverVars
  BY <1>16 DEF OrdinaryCall, Dispatching, InToolLoop, Pause
<1>17. CASE PreparedCall /\ UNCHANGED driverVars
  BY <1>17 DEF PreparedCall, Dispatching, InToolLoop
<1>18. CASE FinishCall /\ UNCHANGED driverVars
  BY <1>18 DEF FinishCall
<1>19. CASE RunawayStops /\ UNCHANGED driverVars
  BY <1>19 DEF RunawayStops, Fail, Terminate
<1>20. CASE FinishUnknownCall /\ UNCHANGED driverVars
  <2>1. permit' = NoPermit /\ pc' \in {"terminal", "loop"}
    BY <1>20 DEF FinishUnknownCall, AfterBatch, Fail, Terminate
  <2> QED BY <2>1, EndsWithoutApproval
<1>21. CASE BatchFinished /\ UNCHANGED driverVars
  BY <1>21 DEF BatchFinished, AfterBatch, Pause, Fail, Terminate
<1>22. CASE ToolReturns /\ UNCHANGED driverVars
  BY <1>22 DEF ToolReturns
<1>23. CASE ToolRedirected /\ UNCHANGED driverVars
  BY <1>23 DEF ToolRedirected, Pause
<1>24. CASE StartSegment
  BY <1>24 DEF StartSegment, CancelSegment, Terminate
<1>25. CASE SegmentPaused
  BY <1>25 DEF SegmentPaused
<1>26. CASE WaiterWakes
  BY <1>26 DEF WaiterWakes
<1>27. CASE TurnResumes
  BY <1>27 DEF TurnResumes
<1>28. CASE CleanupStarts
  BY <1>28 DEF CleanupStarts
<1>29. CASE FinishTerminal
  BY <1>29 DEF FinishTerminal
<1>30. CASE ClaimEvents
  BY <1>30 DEF ClaimEvents, EnsureStarted
<1>31. CASE RequestPause
  BY <1>31 DEF RequestPause, EnsureStarted
<1>32. CASE RequestCancel
  BY <1>32 DEF RequestCancel, EnsureStarted
<1>33. CASE RequestSteering
  BY <1>33 DEF RequestSteering, EnsureStarted
<1>34. CASE ResumeTurn
  BY <1>34 DEF ResumeTurn, Answer, Resumable
<1>35. CASE AnswerQuestions
  BY <1>35 DEF AnswerQuestions, Answer, Resumable, Kind
<1>36. CASE DecidePermission
  BY <1>36 DEF DecidePermission, Answer, Resumable
<1>37. CASE ApprovePlan
  BY <1>37 DEF ApprovePlan, Answer, Resumable, Kind
<1>38. CASE RevisePlan
  BY <1>38 DEF RevisePlan, Resumable
<1>39. CASE ShutdownSegment
  BY <1>39 DEF ShutdownSegment, Terminate
<1>40. CASE ShutdownTool
  BY <1>40 DEF ShutdownTool
<1>41. CASE ShutdownDriver
  BY <1>41 DEF ShutdownDriver
<1> QED BY <1>1, <1>2, <1>3, <1>4, <1>5, <1>6, <1>7, <1>8, <1>9, <1>10,
    <1>11, <1>12, <1>13, <1>14, <1>15, <1>16, <1>17, <1>18, <1>19, <1>20,
    <1>21, <1>22, <1>23, <1>24, <1>25, <1>26, <1>27, <1>28, <1>29, <1>30,
    <1>31, <1>32, <1>33, <1>34, <1>35, <1>36, <1>37, <1>38, <1>39, <1>40,
    <1>41
    DEF Next, CoreStep, ExecStep, BatchStep, Control, LoopStep, DispatchStep,
        ToolStep, DriverStep, Resume, Shutdown

\* The runs and the grants of the calls after each kind of step.
LEMMA CallStepCounts ==
    ASSUME BatchTypes, HistoryTypes, HistoryShape, BatchTypes', CallStep
    PROVE  \/ SameCounts(tools, tools')
           \/ /\ SameBatch /\ Current \in 1..Len(tools)
              /\ \/ /\ Undeterred /\ PlanAllows /\ ~Taken
                    /\ tools' = Ran(Granted(ToolStarted(tools, Current), Current),
                                   Current)
                 \/ tools' = Granted(tools, Current)
                 \/ /\ Undeterred /\ permit.choice = "approve"
                    /\ tools' = Ran(tools, Current)
                 \/ /\ pc = "executing"
                    /\ tools' = Rerun(Granted(tools, Current), Current)
           \/ /\ ~InBatch /\ InBatch'
              /\ \A i \in 1..Len(tools') : tools'[i] = FreshCall
<1>1. /\ tools \in Seq(CallHistory) /\ Current \in Nat \ {0}
      /\ Calls \in Nat /\ (InBatch => Len(tools) = Calls)
      /\ Calls' \in Nat
  BY CallsTyped DEF HistoryTypes, HistoryShape, BatchTypes, Batch
<1> HIDE DEF Current, Calls, InBatch
<1>2. CASE tools' = tools
  BY <1>1, <1>2, EventsKeepCounts
<1>3. CASE CallTaken
  <2>1. SameBatch /\ Current \in 1..Len(tools)
    BY <1>1, <1>3 DEF CallTaken, SameBatch
  <2> QED BY <1>1, <1>3, <2>1, EventsKeepCounts DEF CallTaken
<1>4. CASE CallGoesOn
  <2>1. SameBatch /\ Current \in 1..Len(tools)
    BY <1>1, <1>4 DEF CallGoesOn, SameBatch
  <2> QED BY <1>2, <1>4, <2>1 DEF CallGoesOn
<1>5. CASE CallFinished
  <2>1. Current \in 1..Len(tools)
    BY <1>1, <1>5 DEF CallFinished
  <2> QED BY <1>1, <1>5, <2>1, EventsKeepCounts DEF CallFinished
<1>6. CASE BatchOpened
  <2>1. tools' = [i \in 1..Calls' |-> FreshCall] /\ ~InBatch /\ InBatch'
    BY <1>6 DEF BatchOpened
  <2>2. \A i \in 1..Len(tools') : tools'[i] = FreshCall
    <3>1. Calls' \in Nat
      BY <1>1
    <3> QED BY <2>1, <3>1
  <2> QED BY <2>1, <2>2
<1>7. CASE BatchClosed
  <2>1. \A b \in BOOLEAN : SameCounts(tools, CloseTail(tools, Current, b))
    BY <1>1, EventsKeepCounts
  <2>2. CASE tools' = CancelledTools
    <3>1. (permit.prepared \/ cont.pause \in {"input", "permission"}) \in BOOLEAN
      BY DEF BatchTypes, Permit
    <3> QED BY <1>2, <2>1, <2>2, <3>1 DEF CancelledTools
  <2>3. CASE tools' = CloseTail(tools, Current, FALSE)
    BY <2>1, <2>3
  <2>4. CASE Current <= Calls /\ InBatch
    <3>1. Current \in 1..Len(tools)
      BY <1>1, <2>4
    <3> QED BY <1>1, <1>2, <1>7, <2>2, <2>3, <3>1, EventsKeepCounts DEF BatchClosed
  <2>5. InBatch
    BY <1>7 DEF BatchClosed
  <2>6. CASE Current = 1 /\ Calls = 1
    BY <2>4, <2>5, <2>6
  <2> QED BY <1>2, <1>7, <2>2, <2>3, <2>4, <2>5, <2>6 DEF BatchClosed
<1> QED BY <1>2, <1>3, <1>4, <1>5, <1>6, <1>7 DEF CallStep, CallsUntouched

\* Every kind of step keeps a grant for each run, and a grant to spare for an
\* approval that was not used yet.
LEMMA StepKeepsGrants ==
    ASSUME BatchTypes, HistoryTypes, HistoryShape, BatchTypes', GrantShape,
           CallStep, PermitStep
    PROVE  GrantShape'
<1> DEFINE k == Current
           started == Ran(Granted(ToolStarted(tools, k), k), k)
           granted == Granted(tools, k)
           ran == Ran(tools, k)
           redirected == Rerun(Granted(tools, k), k)
<1>1. /\ tools \in Seq(CallHistory) /\ k \in Nat \ {0}
      /\ \A i \in 1..Len(tools) : tools[i].runs \in Nat /\ tools[i].grants \in Nat
      /\ SameBatch /\ Current <= Calls => k \in 1..Len(tools)
  <2>1. tools \in Seq(CallHistory)
    BY DEF HistoryTypes
  <2>2. k \in Nat \ {0} /\ Calls \in Nat
    BY CallsTyped
  <2>3. SameBatch => Len(tools) = Calls
    BY DEF SameBatch, HistoryShape
  <2> QED BY <2>1, <2>2, <2>3, UpdateTyped, CountEffects
<1>2. /\ \A i \in 1..Len(tools) : tools[i].runs <= tools[i].grants
      /\ permit.choice = "approve" => tools[k].runs < tools[k].grants
      /\ Executing => tools[k].runs > 0
  BY DEF GrantShape, Executing
<1>3. SameBatch => Current' = k
  BY DEF SameBatch
<1>4. permit'.choice = "approve" =>
         /\ Current' = k /\ k \in 1..Len(tools)
         /\ \/ permit.choice = "approve" /\ tools' = tools
            \/ tools' = granted
  BY <1>1, <1>3 DEF PermitStep, ApprovalKept
<1>5. Executing' =>
         /\ Current' = k /\ k \in 1..Len(tools)
         /\ \/ Executing /\ tools' = tools
            \/ Executing /\ tools' = redirected
            \/ tools' = started
            \/ tools' = ran
  BY <1>1, <1>3 DEF PermitStep, ExecutionGranted, Executing
<1>6. \/ SameCounts(tools, tools')
      \/ /\ k \in 1..Len(tools)
         /\ \/ tools' = started
            \/ tools' = granted
            \/ permit.choice = "approve" /\ tools' = ran
            \/ tools' = redirected
      \/ \A i \in 1..Len(tools') : tools'[i] = FreshCall
  BY CallStepCounts
<1> HIDE DEF k
<1>7. ASSUME k \in 1..Len(tools)
      PROVE  /\ Len(started) = Len(tools)
             /\ \A i \in 1..Len(tools) :
                  /\ started[i].runs = tools[i].runs + (IF i = k THEN 1 ELSE 0)
                  /\ started[i].grants = tools[i].grants + (IF i = k THEN 1 ELSE 0)
  BY <1>1, <1>7, TakenEffects
<1>8. ASSUME k \in 1..Len(tools)
      PROVE  /\ Len(granted) = Len(tools)
             /\ \A i \in 1..Len(tools) :
                  /\ granted[i].runs = tools[i].runs
                  /\ granted[i].grants = tools[i].grants + (IF i = k THEN 1 ELSE 0)
  BY <1>1, <1>8, HistoryTyped, GrantedEffect
<1>9. ASSUME k \in 1..Len(tools)
      PROVE  /\ Len(ran) = Len(tools)
             /\ \A i \in 1..Len(tools) :
                  /\ ran[i].runs = tools[i].runs + (IF i = k THEN 1 ELSE 0)
                  /\ ran[i].grants = tools[i].grants
  BY <1>1, <1>9, HistoryTyped, RanEffect
<1>10. ASSUME k \in 1..Len(tools)
       PROVE  /\ Len(redirected) = Len(tools)
              /\ \A i \in 1..Len(tools) :
                   /\ redirected[i].runs = tools[i].runs
                         + (IF i = k /\ ~cancelled THEN 1 ELSE 0)
                   /\ redirected[i].grants = tools[i].grants + (IF i = k THEN 1 ELSE 0)
  BY <1>1, <1>10, RedirectedEffects
<1> HIDE DEF started, granted, ran, redirected, Executing
<1>11. \A i \in 1..Len(tools') : tools'[i].runs <= tools'[i].grants
  <2>1. CASE SameCounts(tools, tools')
    BY <1>2, <2>1 DEF SameCounts
  <2>2. CASE k \in 1..Len(tools) /\ tools' = started
    BY <1>1, <1>2, <1>7, <2>2, SMTT(60)
  <2>3. CASE k \in 1..Len(tools) /\ tools' = granted
    BY <1>1, <1>2, <1>8, <2>3, SMTT(60)
  <2>4. CASE k \in 1..Len(tools) /\ tools' = ran /\ permit.choice = "approve"
    BY <1>1, <1>2, <1>9, <2>4
  <2>5. CASE k \in 1..Len(tools) /\ tools' = redirected
    BY <1>1, <1>2, <1>10, <2>5
  <2>6. CASE \A i \in 1..Len(tools') : tools'[i] = FreshCall
    BY <2>6 DEF FreshCall
  <2> QED BY <1>6, <2>1, <2>2, <2>3, <2>4, <2>5, <2>6
<1>12. permit'.choice = "approve" => tools'[Current'].runs < tools'[Current'].grants
  BY <1>1, <1>2, <1>4, <1>8
<1>13. ASSUME Executing' PROVE tools'[Current'].runs > 0
  <2>1. Current' = k /\ k \in 1..Len(tools) /\ tools[k].runs \in Nat
    BY <1>1, <1>5, <1>13
  <2>2. CASE Executing /\ tools' = tools
    BY <1>2, <2>1, <2>2
  <2>3. CASE Executing /\ tools' = redirected
    BY <1>2, <1>10, <2>1, <2>3
  <2>4. CASE tools' = started
    BY <1>7, <2>1, <2>4
  <2>5. CASE tools' = ran
    BY <1>9, <2>1, <2>5
  <2> QED BY <1>5, <1>13, <2>2, <2>3, <2>4, <2>5
<1> QED BY <1>11, <1>12, <1>13 DEF GrantShape, Executing

\* Every kind of step runs a call only when nobody has stopped the turn, or runs
\* the call that was running already, and only a call the mode allows.
LEMMA StepRunsAllowed ==
    ASSUME BatchTypes, HistoryTypes, HistoryShape, BatchTypes', HistoryTypes',
           PermitShape, GrantShape, CallStep, NEW i \in DOMAIN tools, ToolRuns(i)
    PROVE  /\ ~cancelled
           /\ Undeterred \/ tools[i].runs > 0
           /\ mode = "PLAN" => batch.calls[i] = "read"
<1> DEFINE k == Current
           started == Ran(Granted(ToolStarted(tools, k), k), k)
           granted == Granted(tools, k)
           ran == Ran(tools, k)
           redirected == Rerun(Granted(tools, k), k)
<1>1. /\ tools \in Seq(CallHistory) /\ i \in 1..Len(tools)
      /\ tools[i].runs \in Nat /\ i \in 1..Len(tools')
      /\ tools'[i].runs > tools[i].runs
  <2>1. tools \in Seq(CallHistory) /\ tools' \in Seq(CallHistory)
    BY DEF HistoryTypes
  <2>2. i \in 1..Len(tools) /\ i \in 1..Len(tools')
    BY <2>1 DEF ToolRuns
  <2> QED BY <2>1, <2>2, UpdateTyped, CountEffects DEF ToolRuns
<1>2. \/ SameCounts(tools, tools')
      \/ /\ k \in 1..Len(tools)
         /\ \/ Undeterred /\ PlanAllows /\ tools' = started
            \/ tools' = granted
            \/ Undeterred /\ permit.choice = "approve" /\ tools' = ran
            \/ pc = "executing" /\ tools' = redirected
      \/ \A j \in 1..Len(tools') : tools'[j] = FreshCall
  BY CallStepCounts
<1>3. /\ PlanAllows => Kind = "read" \/ mode = "DEFAULT"
      /\ permit.choice = "approve" => Kind = "read" \/ mode = "DEFAULT"
      /\ pc = "executing" => Kind = "read" \/ mode = "DEFAULT"
      /\ pc = "executing" => tools[k].runs > 0
      /\ Kind = batch.calls[k]
      /\ Undeterred => ~cancelled
  BY DEF PlanAllows, PermitShape, Kind, GrantShape, Undeterred
<1> HIDE DEF k
<1>4. CASE SameCounts(tools, tools')
  BY <1>1, <1>4 DEF SameCounts
<1>5. CASE k \in 1..Len(tools) /\ Undeterred /\ PlanAllows /\ tools' = started
  <2>1. started[i].runs = tools[i].runs + (IF i = k THEN 1 ELSE 0)
    BY <1>1, <1>5, TakenEffects
  <2> HIDE DEF started
  <2>2. i = k
    BY <1>1, <1>5, <2>1
  <2> QED BY <1>3, <1>5, <2>2
<1>6. CASE k \in 1..Len(tools) /\ tools' = granted
  <2>1. granted[i].runs = tools[i].runs
    BY <1>1, <1>6, GrantedEffect
  <2> HIDE DEF granted
  <2> QED BY <1>1, <1>6, <2>1
<1>7. CASE /\ k \in 1..Len(tools) /\ Undeterred /\ permit.choice = "approve"
           /\ tools' = ran
  <2>1. ran[i].runs = tools[i].runs + (IF i = k THEN 1 ELSE 0)
    BY <1>1, <1>7, RanEffect
  <2> HIDE DEF ran
  <2>2. i = k
    BY <1>1, <1>7, <2>1
  <2> QED BY <1>3, <1>7, <2>2
<1>8. CASE k \in 1..Len(tools) /\ pc = "executing" /\ tools' = redirected
  <2>1. redirected[i].runs
          = tools[i].runs + (IF i = k /\ ~cancelled THEN 1 ELSE 0)
    BY <1>1, <1>8, RedirectedEffects
  <2> HIDE DEF redirected
  <2>2. i = k /\ ~cancelled
    BY <1>1, <1>8, <2>1
  <2> QED BY <1>3, <1>8, <2>2
<1>9. CASE \A j \in 1..Len(tools') : tools'[j] = FreshCall
  BY <1>1, <1>9 DEF FreshCall
<1> QED BY <1>2, <1>4, <1>5, <1>6, <1>7, <1>8, <1>9

\* Where a Provider attempt starts, and where the mode changes.
AttemptsAndModes ==
    /\ pc' = "streaming" /\ pc # "streaming" => pc = "preparing" /\ ~pauseSignal
    /\ mode' # mode => pendingPause = "plan" /\ mode' = "DEFAULT"

\* Every step.
LEMMA NextAttemptsAndModes == Shape /\ Next => AttemptsAndModes
<1> SUFFICES ASSUME Shape, Next PROVE AttemptsAndModes
  OBVIOUS
<1> USE DEF Shape, ControlInv, PauseCoherence, AttemptsAndModes, turnVars, planVars, callVars, driverVars,
    execVars, Terminate, Fail, CancelSegment, Pause
<1>1. CASE LoopStep /\ UNCHANGED driverVars
  BY <1>1 DEF LoopStep, LoopCancelled, LoopIterates, LoopResumesBatch,
     LoopSteered, ApplySteering
<1>2. CASE PrepareStep /\ UNCHANGED driverVars
  BY <1>2 DEF PrepareStep, AttemptStarts, PrepareFails, Undisturbed
<1>3. CASE BoundaryStep /\ UNCHANGED driverVars
  BY <1>3 DEF BoundaryStep, BoundaryCancelled, BoundaryPaused,
     BoundarySteered, ApplySteering
<1>4. CASE AttemptStep /\ UNCHANGED driverVars
  BY <1>4 DEF AttemptStep, AttemptFails, AttemptOverflows,
     AttemptUnavailable, OverflowRecovered, OverflowUnresolved
<1>5. CASE ResponseStep /\ UNCHANGED driverVars
  BY <1>5 DEF ResponseStep, FinalAnswer, FinalBlocked, ProviderCancels,
     ToolCallsAnswer, OpenBatch, TruncatedAnswer, Responding, Undisturbed
<1>6. CASE BatchCancelled /\ UNCHANGED driverVars
  BY <1>6 DEF BatchCancelled, InToolLoop
<1>7. CASE BatchSteered /\ UNCHANGED driverVars
  BY <1>7 DEF BatchSteered, AfterBatch, ApplySteering, InToolLoop
<1>8. CASE BatchPaused /\ UNCHANGED driverVars
  BY <1>8 DEF BatchPaused, InToolLoop
<1>9. CASE RefusedCall /\ UNCHANGED driverVars
  BY <1>9 DEF RefusedCall, Dispatching, InToolLoop
<1>10. CASE AskUserQuestion /\ UNCHANGED driverVars
  BY <1>10 DEF AskUserQuestion, Dispatching, InToolLoop
<1>11. CASE TodoWrite /\ UNCHANGED driverVars
  BY <1>11 DEF TodoWrite, Dispatching, InToolLoop
<1>12. CASE ProposePlan /\ UNCHANGED driverVars
  BY <1>12 DEF ProposePlan, Dispatching, InToolLoop
<1>13. CASE OrdinaryCall /\ UNCHANGED driverVars
  BY <1>13 DEF OrdinaryCall, Dispatching, InToolLoop, PlanAllows
<1>14. CASE PreparedCall /\ UNCHANGED driverVars
  BY <1>14 DEF PreparedCall, Dispatching, InToolLoop
<1>15. CASE FinishCall /\ UNCHANGED driverVars
  BY <1>15 DEF FinishCall, NextCall
<1>16. CASE RunawayStops /\ UNCHANGED driverVars
  BY <1>16 DEF RunawayStops
<1>17. CASE FinishUnknownCall /\ UNCHANGED driverVars
  BY <1>17 DEF FinishUnknownCall, AfterBatch
<1>18. CASE BatchFinished /\ UNCHANGED driverVars
  BY <1>18 DEF BatchFinished, AfterBatch
<1>19. CASE ToolStep /\ UNCHANGED driverVars
  BY <1>19 DEF ToolStep, ToolRedirected, ToolReturns
<1>20. CASE StartSegment
  BY <1>20 DEF StartSegment
<1>21. CASE SegmentPaused
  BY <1>21 DEF SegmentPaused, PauseServed
<1>22. CASE WaiterWakes
  BY <1>22 DEF WaiterWakes
<1>23. CASE TurnResumes
  BY <1>23 DEF TurnResumes
<1>24. CASE CleanupStarts
  BY <1>24 DEF CleanupStarts
<1>25. CASE FinishTerminal
  BY <1>25 DEF FinishTerminal
<1>26. CASE ClaimEvents
  BY <1>26 DEF ClaimEvents, EnsureStarted
<1>27. CASE RequestPause
  BY <1>27 DEF RequestPause, EnsureStarted, MayPause, Active, Yielded,
     InSegment
<1>28. CASE RequestCancel
  BY <1>28 DEF RequestCancel, CancelToken, CancelWaiter, EnsureStarted, Active,
     Yielded, InSegment
<1>29. CASE RequestSteering
  BY <1>29 DEF RequestSteering, EnsureStarted, Active, Yielded
<1>30. CASE ResumeTurn
  BY <1>30 DEF ResumeTurn, Answer, Resumable
<1>31. CASE AnswerQuestions
  BY <1>31 DEF AnswerQuestions, Answer, Resumable, NextCall
<1>32. CASE DecidePermission
  BY <1>32 DEF DecidePermission, Answer, Resumable
<1>33. CASE ApprovePlan
  BY <1>33 DEF ApprovePlan, Answer, Resumable, NextCall
<1>34. CASE RevisePlan
  BY <1>34 DEF RevisePlan, Answer, Resumable
<1>35. CASE Shutdown
  BY <1>35 DEF Shutdown, ShutdownDriver, CountShutdown, ShutdownSegment,
     ShutdownTool
<1> QED BY <1>1, <1>2, <1>3, <1>4, <1>5, <1>6, <1>7, <1>8, <1>9, <1>10,
    <1>11, <1>12, <1>13, <1>14, <1>15, <1>16, <1>17, <1>18, <1>19, <1>20,
    <1>21, <1>22, <1>23, <1>24, <1>25, <1>26, <1>27, <1>28, <1>29, <1>30,
    <1>31, <1>32, <1>33, <1>34, <1>35
    DEF Next, CoreStep, ExecStep, BatchStep, Control, DriverStep,
        DispatchStep, Resume

(***************************************************************************)
(* The invariant and the theorems.                                         *)
(***************************************************************************)
\* The invariant holds in the initial states.
LEMMA InitHonest == Init => Honest
<1> SUFFICES ASSUME Init PROVE Honest
  OBVIOUS
<1> USE DEF Init, ExecInit
<1>1. PermitShape
  BY DEF PermitShape, NoPermit
<1>2. OpenCalls /\ ClosedCalls
  BY DEF OpenCalls, ClosedCalls
<1>3. GrantShape
  BY DEF GrantShape, NoPermit
<1>4. AskShape
  BY DEF AskShape, SteeringShape, PauseShape, CancelShape
<1> QED BY <1>1, <1>2, <1>3, <1>4 DEF Honest

\* The invariant is inductive, relative to the shape of the control.
LEMMA NextHonest == Shape /\ Shape' /\ Honest /\ [Next]_vars => Honest'
<1> SUFFICES ASSUME Shape, Shape', Honest, [Next]_vars PROVE Honest'
  OBVIOUS
<1>1. CASE Next
  <2>1. /\ BatchTypes /\ HistoryTypes /\ HistoryShape /\ BatchShape
        /\ BatchTypes' /\ HistoryTypes' /\ HistoryShape'
    BY DEF Shape, TypeOK, ControlInv
  <2>2. /\ PermitShape /\ OpenCalls /\ ClosedCalls /\ GrantShape
        /\ SteeringShape /\ PauseShape /\ CancelShape
    BY DEF Honest, AskShape
  <2>3. CallStep /\ PermitStep
    BY <1>1, <2>2, NextCallStep, NextPermitStep
  <2>4. PermitShape'
    BY <1>1, <2>2, NextPermit
  <2>5. OpenCalls' /\ ClosedCalls'
    BY <2>1, <2>2, <2>3, CallStepKeepsCalls
  <2>6. GrantShape'
    BY <2>1, <2>2, <2>3, StepKeepsGrants
  <2>7. AskShape'
    BY <1>1, <2>2, NextSteering, NextPauseAsked, NextCancelPaused DEF AskShape
  <2> QED BY <2>4, <2>5, <2>6, <2>7 DEF Honest
<1>2. CASE UNCHANGED vars
  <2>1. PermitShape'
    BY <1>2 DEF vars, execVars, turnVars, planVars, Honest, PermitShape, Kind
  <2>2. OpenCalls' /\ ClosedCalls'
    BY <1>2 DEF vars, execVars, turnVars, planVars, Honest, OpenCalls,
       ClosedCalls, Taken
  <2>3. GrantShape'
    BY <1>2 DEF vars, execVars, turnVars, planVars, Honest, GrantShape
  <2>4. AskShape'
    BY <1>2 DEF vars, execVars, turnVars, planVars, driverVars, Honest,
       AskShape, SteeringShape, PauseShape, CancelShape
  <2> QED BY <2>1, <2>2, <2>3, <2>4 DEF Honest
<1> QED BY <1>1, <1>2

\* The inductive invariant of the calls and of the user's requests.
THEOREM HonestInvariant == Spec => [](Shape /\ Honest)
<1>1. Spec => []Shape
  BY ShapeInvariant, PTL
<1> QED BY <1>1, InitHonest, NextHonest, PTL DEF Spec

\* Whatever the user and the Provider do, each call of a batch is reported
\* started and finished as it was handled, and runs no more often than policy
\* or the user allowed.
THEOREM CallsHonest == Spec => []CallsAreHonest
<1>1. Shape /\ Honest => CallsAreHonest
  <2> SUFFICES ASSUME Shape, Honest PROVE CallsAreHonest
    OBVIOUS
  <2>1. /\ tools \in Seq(CallHistory) /\ (InBatch => Len(tools) = Calls)
        /\ Current \in Nat /\ Calls \in Nat /\ permit \in Permit
        /\ DOMAIN tools = 1..Len(tools) /\ Len(tools) \in Nat
    BY CallsTyped DEF Shape, TypeOK, HistoryTypes, HistoryShape, BatchTypes
  <2>2. CallsClosed
    <3> USE <2>1 DEF CallsClosed, Honest, OpenCalls, ClosedCalls
    <3> HIDE DEF InBatch, Current, Taken
    <3>1. CASE InBatch
      <4>1. ASSUME NEW i \in 1..Len(tools)
            PROVE  /\ tools[i].started \in {0, 1}
                   /\ i >= Current => tools[i].finished = 0
                   /\ i < Current => tools[i].started = 1 /\ tools[i].finished = 1
        BY <3>1
      <4> QED BY <3>1, <4>1
    <3>2. CASE ~InBatch
      BY <3>2
    <3> QED BY <3>1, <3>2
  <2>3. ApprovalBinds
    <3>1. \A i \in DOMAIN tools : tools[i].runs <= tools[i].grants
      BY <2>1 DEF Honest, GrantShape
    <3>2. ASSUME permit.prepared
          PROVE  /\ InBatch /\ Current <= Calls /\ Current \in 1..Len(tools)
                 /\ pc \in {"resuming", "resumed", "loop", "batch"} =>
                        permit.choice # "none"
      BY <2>1, <3>2, CallsTyped
      DEF Honest, PermitShape, Shape, ControlInv, PauseCoherence, TypeOK
    <3>3. ASSUME permit.prepared
          PROVE  tools[Current].started > 0 /\ tools[Current].finished = 0
      BY <3>2, <3>3 DEF Honest, OpenCalls, Taken
    <3> QED BY <3>1, <3>2, <3>3 DEF ApprovalBinds
  <2> QED BY <2>2, <2>3 DEF CallsAreHonest
<1> QED BY <1>1, HonestInvariant, PTL

\* A turn completes only when every accepted steering text is in the
\* conversation, and a turn cancelled while it was paused ends cancelled.
THEOREM ResultHonest == Spec => []ResultIsHonest
<1>1. Shape /\ Honest => ResultIsHonest
  BY DEF Shape, ControlInv, OutcomeShape, Honest, AskShape, SteeringShape,
     CancelShape, ResultIsHonest, SteeringIsHeard, CancelWins, TypeOK,
     HistoryTypes, Facts, Budget, DriverTypes
<1> QED BY <1>1, HonestInvariant, PTL

\* No tool is called for a cancelled turn, no attempt starts and no call is run
\* for the first time between an accepted pause request and the pause, and PLAN
\* mode runs reads only and ends by an approved review.
THEOREM ToolsObeyTheUser == Spec => ToolsObey
<1>1. Shape /\ Shape' /\ Honest /\ [Next]_vars =>
          /\ cancelled => \A i \in DOMAIN tools : ~ToolRuns(i)
          /\ asks.pause =>
                /\ pc' = "streaming" => pc = "streaming"
                /\ \A i \in DOMAIN tools : ToolRuns(i) => tools[i].runs > 0
          /\ mode = "PLAN" =>
                \A i \in DOMAIN tools : ToolRuns(i) => batch.calls[i] = "read"
          /\ mode' # mode => pendingPause = "plan" /\ mode' = "DEFAULT"
  <2> SUFFICES ASSUME Shape, Shape', Honest, [Next]_vars
               PROVE  /\ cancelled => \A i \in DOMAIN tools : ~ToolRuns(i)
                      /\ asks.pause =>
                           /\ pc' = "streaming" => pc = "streaming"
                           /\ \A i \in DOMAIN tools :
                                 ToolRuns(i) => tools[i].runs > 0
                      /\ mode = "PLAN" =>
                           \A i \in DOMAIN tools :
                              ToolRuns(i) => batch.calls[i] = "read"
                      /\ mode' # mode => pendingPause = "plan" /\ mode' = "DEFAULT"
    OBVIOUS
  <2>1. CASE UNCHANGED vars
    <3>1. /\ tools' = tools /\ pc' = pc /\ mode' = mode
      BY <2>1 DEF vars, execVars, planVars
    <3>2. \A i \in DOMAIN tools : ~ToolRuns(i)
      <4>1. \A i \in DOMAIN tools : tools[i].runs \in Nat
        BY UpdateTyped, CountEffects DEF Shape, TypeOK, HistoryTypes
      <4> QED BY <3>1, <4>1 DEF ToolRuns
    <3> QED BY <3>1, <3>2
  <2>2. CASE Next
    <3>1. /\ BatchTypes /\ HistoryTypes /\ HistoryShape /\ BatchTypes'
          /\ HistoryTypes' /\ PermitShape /\ GrantShape /\ SteeringShape
          /\ PauseShape
      BY DEF Shape, TypeOK, Honest, AskShape
    <3>2. CallStep /\ AttemptsAndModes
      BY <2>2, <3>1, NextCallStep, NextAttemptsAndModes
    <3>3. ASSUME NEW i \in DOMAIN tools, ToolRuns(i)
          PROVE  /\ ~cancelled
                 /\ Undeterred \/ tools[i].runs > 0
                 /\ mode = "PLAN" => batch.calls[i] = "read"
      BY <3>1, <3>2, <3>3, StepRunsAllowed
    <3>4. asks.pause => ~Undeterred
      BY <3>1 DEF PauseShape, Undeterred
    <3>5. asks.pause => (pc' = "streaming" => pc = "streaming")
      BY <3>1, <3>2 DEF PauseShape, AttemptsAndModes
    <3> QED BY <3>2, <3>3, <3>4, <3>5 DEF AttemptsAndModes
  <2> QED BY <2>1, <2>2
<1>2. Spec => [][Next]_vars
  BY PTL DEF Spec
<1> QED BY <1>1, <1>2, HonestInvariant, PTL
        DEF ToolsObey, StopsAreObeyed, PlanIsReadOnly
=============================================================================
