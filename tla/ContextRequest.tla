--------------------------- MODULE ContextRequest ---------------------------
(* From a conversation to the request a Provider is sent.  The Context service *)
(* merges the Session's Transcript with the messages of the running Turn       *)
(* (application/context.py), the compiler selects what fits and makes messages *)
(* of it again (core/context.py); request preparation counts and rebuilds      *)
(* until the count is of the very request (application/request_preparation.py),*)
(* and the Application compacts when there is pressure (generation.py).        *)
(* One Run of one Session, whose writes succeed and whose model takes images;  *)
(* its epochs are not aged (EpochSummary).  Sizes are tokens.                  *)
EXTENDS ContextBudget, Sequences, FiniteSets
LOCAL INSTANCE SequencesExt
LOCAL INSTANCE Functions

CONSTANTS Scripts,             \* the Turns there may be: their messages in order
          ConfiguredLimit, ProviderLimit,   \* of the input; 0: none
          OutputLimit, CombinedLimit,       \* the Provider's, of the answer and of both
          OutputReserve,                    \* the answer that is asked for
          Factors, ImageTokens,\* by which a Provider counts more than the local count
          PromptSize, FactSize, SummarySize,
          LongResult, PlaceholderSize, PreviewSize,
          MaxTurns, MaxRoomEpochs, MaxRounds

InputLimit == EffectiveInputLimit(ConfiguredLimit, ProviderLimit)

ASSUME RequestAssumption ==
  /\ InputLimit \in Nat /\ InputLimit >= 3 /\ PlaceholderSize <= PreviewSize
  /\ {OutputLimit, CombinedLimit, OutputReserve} \subseteq Nat
  /\ \A s \in Scripts : s[1].role = "user" /\ s[Len(s)].role = "assistant"

VARIABLES
  past,        \* the Turns of the Transcript that have ended, and their messages
  covered,     \* how many of them the Timeline stands for
  script,      \* the running Turn, or <<>>
  said,        \* how many of its messages there are
  phase,       \* where the preparation of a request waits
  counted,     \* the request a Provider is asked to count
  count,       \* its last answer: <<>> or <<tokens>>
  rounds,
  room,        \* compaction in this Turn: whether it began, the epochs of a pass
  overflowed,  \* the one retry after a Provider's overflow is used
  posted,        \* the request the Provider is working on
  refused      \* history: why the last Turn failed

requestVars == <<past, covered, script, said, phase, counted, count, rounds, room, overflowed, posted, refused>>

----------------------------------------------------------------------------
(* Entries of a Transcript: a message is one entry per part, found together    *)
(* again by its identity.                                                      *)
EntriesOf(turn, messages) ==
  FlattenSeq([k \in DOMAIN messages |->
    [j \in DOMAIN messages[k].parts |->
      [turn |-> turn, message |-> <<turn, k>>, index |-> j, role |-> messages[k].role, part |-> messages[k].parts[j]]]])

Said == SubSeq(script, 1, said)
ThisTurn == Len(past) + 1
Transcript ==
  FlattenSeq([t \in DOMAIN past |-> EntriesOf(t, past[t])]) \o EntriesOf(ThisTurn, Said)

\* stable_transcript_for_compaction: the running Turn is written as it goes, and
\* is taken from the Run's own messages instead.
WholeTranscript(entries) == entries
StableTranscript(entries) == SelectSeq(entries, LAMBDA e : e.turn # ThisTurn)

\* _transcript_for_messages: every message of the Run a Turn of its own.
CurrentUser == IF Last(Said).role = "user" THEN <<Last(Said)>> ELSE <<>>
RunEntries ==
  LET history == SubSeq(Said, 1, said - Len(CurrentUser))
  IN FlattenSeq([k \in DOMAIN history |-> EntriesOf(MaxTurns + 1 + k, <<history[k]>>)])

\* Transcript.semantic_units, and SemanticUnit.complete: the calls have results.
SemanticUnits(entries) ==
  FoldLeft(LAMBDA units, e :
             IF units # <<>> /\ Last(Last(units)).turn = e.turn
             THEN [units EXCEPT ![Len(units)] = Append(@, e)] ELSE Append(units, <<e>>),
           <<>>, entries)
CallsIn(unit, kind) == {unit[k].part.call : k \in {i \in DOMAIN unit : unit[i].part.kind = kind}}
Complete(unit) == CallsIn(unit, "call") = CallsIn(unit, "result")

SizeOf(parts) == FoldLeft(LAMBDA n, p : n + p.size, 0, parts)
UnitSize(unit) == FoldLeft(LAMBDA n, e : n + e.part.size, 0, unit)

----------------------------------------------------------------------------
(* ContextCompiler.compile.  Open units, summaries and the current user's      *)
(* message are taken whatever they need; closed units from the newest on, up   *)
(* to the first that does not fit; the facts of the runtime after them.        *)
Fact(name) == [role |-> "user", parts |-> <<[kind |-> name, size |-> FactSize, call |-> 0, from |-> <<0, 0, 0>>]>>]
Summary(t) == [role |-> "user", parts |-> <<[kind |-> "summary", size |-> SummarySize, call |-> 0, from |-> <<t, 0, 0>>]>>]

NewestThatFit(units, total) ==
  FoldRight(LAMBDA u, taken :
              IF ~Complete(u) \/ (taken.open /\ taken.total + UnitSize(u) <= InputLimit)
              THEN [taken EXCEPT !.units = <<u>> \o @, !.total = IF Complete(u) THEN @ + UnitSize(u) ELSE @]
              ELSE [taken EXCEPT !.open = FALSE],
            units, [units |-> <<>>, total |-> total, open |-> TRUE])

FactsThatFit(total) ==
  FoldLeft(LAMBDA f, name : IF f.total + FactSize <= InputLimit
                            THEN [facts |-> Append(f.facts, Fact(name)), total |-> f.total + FactSize] ELSE f,
           [facts |-> <<>>, total |-> total], <<"runtime", "environment">>).facts

(* messages_from_context_snapshot: parts of one identity become one message;   *)
(* what a failed Turn had shown is left out.                                   *)
MessageOf(e) == [role |-> e.role, parts |-> <<e.part>>]
Broken == [role |-> "broken", parts |-> <<>>]
MessagesOf(entries) ==
  FoldLeft(LAMBDA m, e :
             IF e.role = "failed" THEN [m EXCEPT !.last = <<>>]
             ELSE IF e.message = m.last
             THEN [m EXCEPT !.messages[Len(m.messages)] =
                     IF e.index = Len(@.parts) + 1 THEN [@ EXCEPT !.parts = Append(@, e.part)] ELSE Broken]
             ELSE [last |-> e.message,
                   messages |-> Append(m.messages, IF e.index = 1 THEN MessageOf(e) ELSE Broken)],
           [last |-> <<>>, messages |-> <<>>], entries).messages

StillTold(cover) ==
  SelectSeq(SemanticUnits(StableTranscript(Transcript) \o RunEntries), LAMBDA u : u[1].turn > cover)
Needed(units, cover) ==
  PromptSize + cover * SummarySize + UnitSize(FlattenSeq(SelectSeq(units, LAMBDA u : ~Complete(u))))
  + UnitSize(EntriesOf(0, CurrentUser))
Compiled(cover) ==
  CHOOSE messages \in
    {FactsThatFit(taken.total) \o [t \in 1..cover |-> Summary(t)] \o MessagesOf(FlattenSeq(taken.units)) \o CurrentUser :
       taken \in {NewestThatFit(units, Needed(units, cover)) : units \in {StillTold(cover)}}} : TRUE

----------------------------------------------------------------------------
(* account_generation_request, evaluate_gates.  An image of unknown size has   *)
(* no local count, and is only let through by the Provider's.  The answer has  *)
(* limits too, of its own and together with the request.                       *)
Images(messages) ==
  FoldLeft(LAMBDA n, m : n + Len(SelectSeq(m.parts, LAMBDA p : p.kind = "image")), 0, messages)
Tokens(messages) == FoldLeft(LAMBDA n, m : n + SizeOf(m.parts), PromptSize, messages)

Gate(messages, answer) ==
  LET source == IF answer = <<>> THEN "local" ELSE "provider"
      tokens == IF answer = <<>> THEN Tokens(messages) ELSE answer[1]
      usage == tokens + Allowance(InputLimit, source)
  IN [source |-> source, tokens |-> tokens, usage |-> usage,
      pressure |-> Tokens(messages) + Allowance(InputLimit, "pressure") > AutoGateLimit(InputLimit),
      safe |-> /\ usage <= InputLimit /\ (Images(messages) > 0 => source = "provider")
               /\ OutputLimit = 0 \/ OutputReserve <= OutputLimit
               /\ CombinedLimit = 0 \/ usage + OutputReserve <= CombinedLimit]
Easy(gate) == gate.safe /\ ~gate.pressure

\* The two reductions: long results give way to a placeholder, and everything
\* but the last user message to a preview.
Places(messages) == UNION {{k} \X DOMAIN messages[k].parts : k \in DOMAIN messages}
Shortened(messages, places, size) ==
  [k \in DOMAIN messages |->
    [messages[k] EXCEPT !.parts =
      [j \in DOMAIN @ |-> IF <<k, j>> \in places THEN [@[j] EXCEPT !.size = size] ELSE @[j]]]]
Externalized(messages) ==
  LET Long(p) == p.kind = "result" /\ p.size > LongResult
  IN Shortened(messages, {at \in Places(messages) : Long(messages[at[1]].parts[at[2]])}, PlaceholderSize)
Shrunk(messages) ==
  LET users == {k \in DOMAIN messages : messages[k].role = "user"}
      last == IF users = {} THEN 0 ELSE CHOOSE k \in users : \A i \in users : i <= k
      Long(p) == p.kind \notin {"call", "image"} /\ p.size > PreviewSize
  IN Shortened(messages, {at \in Places(messages) : at[1] # last /\ Long(messages[at[1]].parts[at[2]])}, PreviewSize)

\* compose_generation_request.  A count is of the request as it was, and of none
\* that was reduced since.
Reduced(request, level, messages) ==
  IF Easy(request.gate) \/ messages = request.messages THEN request
  ELSE [request EXCEPT !.messages = messages, !.gate = Gate(messages, <<>>), !.levels = Append(@, level)]
ComposedOver(cover, answer) ==
  LET plain == {[messages |-> m, gate |-> Gate(m, answer), levels |-> <<>>, note |-> room] : m \in {Compiled(cover)}}
      first == {Reduced(r, "L1", Externalized(r.messages)) : r \in plain}
  IN {Reduced(r, "L2", Shrunk(r.messages)) : r \in first}
Composed(answer) == ComposedOver(covered, answer)
FinalOf(request, answer) == [request EXCEPT !.gate = Gate(request.messages, answer), !.note = room]

Began == [began |-> TRUE, epochs |-> 0]
NeedsRoom(request) == ~Easy(request.gate) /\ ~room.began
Answers(request) == {<<f * Tokens(request.messages) + ImageTokens * Images(request.messages)>> : f \in Factors}
NoRequest == [messages |-> <<>>, gate |-> Gate(<<>>, <<>>), levels |-> <<>>, note |-> [began |-> FALSE, epochs |-> 0]]

----------------------------------------------------------------------------
(* The Turn.                                                                   *)
Identified(messages) ==
  [k \in DOMAIN messages |->
    [messages[k] EXCEPT !.parts = [j \in DOMAIN @ |-> [@[j] EXCEPT !.from = <<ThisTurn, k, j>>]]]]

BeginTurn ==
  /\ phase = "idle" /\ script = <<>> /\ Len(past) < MaxTurns
  /\ \E s \in Scripts : script' = Identified(s)
  /\ said' = 1
  /\ room' = NoRequest.note /\ overflowed' = FALSE /\ refused' = ""
  /\ UNCHANGED <<past, covered, phase, counted, count, rounds, posted>>

\* Tools have run, or the user has steered.
Say ==
  /\ phase = "idle" /\ script # <<>> /\ said < Len(script) /\ script[said + 1].role # "assistant"
  /\ said' = said + 1
  /\ UNCHANGED <<past, covered, script, phase, counted, count, rounds, room, overflowed, posted, refused>>

CloseTurn ==
  /\ phase = "idle" /\ script # <<>> /\ said = Len(script)
  /\ past' = Append(past, script) /\ script' = <<>> /\ said' = 0
  /\ UNCHANGED <<covered, phase, counted, count, rounds, room, overflowed, posted, refused>>

\* The Turn fails; what it has shown stays in the Transcript as failed.
Fail(why) ==
  /\ past' = Append(past, Append(Said, [role |-> "failed", parts |-> Last(script).parts]))
  /\ script' = <<>> /\ said' = 0 /\ phase' = "idle"
  /\ counted' = NoRequest /\ count' = <<>> /\ rounds' = 0 /\ posted' = NoRequest /\ refused' = why
  /\ UNCHANGED <<covered, room, overflowed>>

----------------------------------------------------------------------------
(* Preparing a request: prepare, run_l4_if_needed and                          *)
(* prepare_counted_request_async.                                              *)
Prepare ==
  /\ phase = "idle" /\ script # <<>> /\ said < Len(script) /\ script[said + 1].role = "assistant"
  /\ \E request \in Composed(<<>>) :
       IF NeedsRoom(request) THEN phase' = "early room" /\ room' = Began
       ELSE phase' = "ready" /\ UNCHANGED room
  /\ UNCHANGED <<past, covered, script, said, counted, count, rounds, overflowed, posted, refused>>

FirstCandidate ==
  /\ phase = "ready"
  /\ counted' \in Composed(<<>>) /\ rounds' = 1 /\ phase' = "first count"
  /\ UNCHANGED <<past, covered, script, said, count, room, overflowed, posted, refused>>

Send(request) ==
  /\ posted' = request /\ phase' = "sent"
  /\ counted' = NoRequest /\ count' = <<>> /\ rounds' = 0
  /\ UNCHANGED <<past, covered, script, said, room, overflowed, refused>>

\* Leaving out a count the local one decides, of a request that is built anew.
SendLocally == \E request \in Composed(<<>>) : IF request.gate.safe THEN Send(request) ELSE Fail("local")
Counting == {"first count", "second count", "last count"}
NoCount == phase \in Counting /\ SendLocally
CountBreaks == phase \in Counting /\ Fail("count")

AskCount(request, answer, where, round) ==
  /\ counted' = request /\ count' = answer /\ phase' = where /\ rounds' = round
  /\ UNCHANGED <<past, covered, script, said, overflowed, posted, refused>>

\* finalize: the Hard Gate with this count; another round unless nothing changed.
Finalize(request, answer, round) ==
  \E final \in {FinalOf(request, answer)} :
    IF ~final.gate.safe THEN Fail("exact")
    ELSE IF final = request THEN Send(request)
    ELSE AskCount(final, answer, "last count", round) /\ UNCHANGED room

Settle(request, answer, round) ==
  IF round > MaxRounds THEN Fail("unstable")
  ELSE IF NeedsRoom(request)
  THEN AskCount(request, answer, "late room", round) /\ room' = Began
  ELSE Finalize(request, answer, round)

\* Composed with the count, it is another request unless it was reduced.
Rebuilt(answer, round) ==
  \E candidate \in Composed(answer) :
    IF candidate = counted THEN Settle(counted, answer, round)
    ELSE AskCount(candidate, answer, "second count", round) /\ UNCHANGED room
FirstCount == phase = "first count" /\ \E answer \in Answers(counted) : Rebuilt(answer, rounds)
SecondCount == phase = "second count" /\ \E answer \in Answers(counted) : Settle(counted, answer, rounds)
LastCount == phase = "last count" /\ \E answer \in Answers(counted) : Settle(counted, answer, rounds + 1)

----------------------------------------------------------------------------
(* Compaction while a request waits: an epoch at a time, of closed Turns only, *)
(* and only if the request shrinks by it; on while there is pressure, or, if   *)
(* the request filled the window to the token, down to Low Water.  A recovery  *)
(* is one epoch.                                                               *)
Rooms == {"early room", "late room", "recovery"}
AfterRoom(changed) ==
  CASE phase = "early room" -> "ready"
    [] phase = "late room"  -> IF changed THEN "again" ELSE "settled"
    [] phase = "recovery"   -> "idle"

\* validate_candidate: by the Provider's counts, or by the local ones.
Shrinks(before, after) ==
  \/ Tokens(after.messages) < Tokens(before.messages)
  \/ \E b \in Answers(before), a \in Answers(after) : a[1] < b[1]

UntilLowWater == phase = "late room" /\ counted.gate.source = "provider" /\ counted.gate.tokens = InputLimit
GoesOn(gate) ==
  phase # "recovery" /\ gate.usage > RetainedTarget(InputLimit) /\ (UntilLowWater \/ ~Easy(gate))

\* The request is counted again after every epoch but that of a recovery.
CompactEpoch ==
  /\ phase \in Rooms /\ (phase = "recovery" \/ room.epochs < MaxRoomEpochs)
  /\ \E cover \in covered + 1..Len(past) : \E before \in Composed(<<>>), after \in ComposedOver(cover, <<>>) :
       /\ \A t \in covered + 1..cover : Complete(EntriesOf(t, past[t]))
       /\ Shrinks(before, after)
       /\ covered' = cover /\ room' = [room EXCEPT !.epochs = @ + 1]
       /\ \E answer \in Answers(after) \cup {<<>>} : \E again \in ComposedOver(cover, answer) :
            phase' = IF GoesOn(again.gate) THEN phase ELSE AfterRoom(TRUE)
  /\ UNCHANGED <<past, script, said, counted, count, rounds, overflowed, posted, refused>>

\* Nothing to compact, no summary, or no reduction.
CompactNoMore ==
  /\ phase \in Rooms
  /\ IF phase = "recovery" THEN Fail("overflow")
     ELSE /\ phase' = AfterRoom(room.epochs > 0)
          /\ UNCHANGED <<past, covered, script, said, counted, count, rounds, room, overflowed, posted, refused>>

\* What was counted is stale after an epoch: it is composed anew.
Again == phase = "again" /\ IF rounds = MaxRounds THEN Fail("unstable") ELSE Rebuilt(count, rounds + 1)
KeepCounted == phase = "settled" /\ Finalize(counted, count, rounds)

----------------------------------------------------------------------------
(* The Provider answers, finds the request too long, or fails.                 *)
Reply ==
  /\ phase = "sent" /\ phase' = "idle" /\ said' = said + 1 /\ posted' = NoRequest
  /\ UNCHANGED <<past, covered, script, counted, count, rounds, room, overflowed, refused>>

Overflow ==
  /\ phase = "sent"
  /\ IF overflowed THEN Fail("overflow")
     ELSE /\ overflowed' = TRUE /\ phase' = "recovery" /\ posted' = NoRequest
          /\ room' = [room EXCEPT !.epochs = 0]
          /\ UNCHANGED <<past, covered, script, said, counted, count, rounds, refused>>

ProviderFails == phase = "sent" /\ Fail("provider")

RequestInit ==
  /\ past = <<>> /\ covered = 0 /\ script = <<>> /\ said = 0 /\ phase = "idle"
  /\ counted = NoRequest /\ count = <<>> /\ rounds = 0 /\ room = NoRequest.note
  /\ overflowed = FALSE /\ posted = NoRequest /\ refused = ""

RequestNext ==
  \/ BeginTurn \/ Say \/ CloseTurn \/ Prepare \/ FirstCandidate
  \/ NoCount \/ CountBreaks \/ FirstCount \/ SecondCount \/ LastCount
  \/ CompactEpoch \/ CompactNoMore \/ Again \/ KeepCounted
  \/ Reply \/ Overflow \/ ProviderFails

RequestSpec == RequestInit /\ [][RequestNext]_requestVars

----------------------------------------------------------------------------
(* What a Provider is handed.                                                  *)
LeavingOut(messages, kinds) ==
  SelectSeq(messages, LAMBDA m : m.parts[1].kind \notin kinds)
Origins(messages) == [k \in DOMAIN messages |->
  [role |-> messages[k].role, from |-> [j \in DOMAIN messages[k].parts |-> messages[k].parts[j].from]]]
Spoken(turns) == Origins(SelectSeq(FlattenSeq(turns), LAMBDA m : m.role # "failed"))

\* A request passes the Hard Gate by a count of its own messages, whatever was
\* reduced, compacted or counted again since they were first composed.
SentFits ==
  phase = "sent" =>
    /\ posted.gate.usage = posted.gate.tokens + Allowance(InputLimit, posted.gate.source)
    /\ posted.gate.usage <= InputLimit
    /\ CombinedLimit > 0 => posted.gate.usage + OutputReserve <= CombinedLimit
    /\ IF posted.gate.source = "local"
       THEN posted.gate.tokens = Tokens(posted.messages) /\ ~(Images(posted.messages) > 0)
       ELSE <<posted.gate.tokens>> \in Answers(posted)

\* A request tells the conversation: one summary for each Turn the Timeline
\* covers now, then the latest Turns, whole, in order and once; of the running
\* Turn nothing twice.
SentIsTheConversation ==
  phase = "sent" =>
    LET told == LeavingOut(posted.messages, {"runtime", "environment"})
        summaries == SelectSeq(told, LAMBDA m : m.parts[1].kind = "summary")
        own == SelectSeq(Said, LAMBDA m : \E k \in DOMAIN told : told[k].parts[1].from = m.parts[1].from)
    IN /\ Origins(summaries) = Origins([t \in 1..covered |-> Summary(t)])
       /\ \E t \in covered + 1..ThisTurn :
            Origins(told) = Origins(summaries) \o Spoken(SubSeq(past, t, Len(past))) \o Origins(own)

\* Both: what is sent is the conversation, and fits.
RequestIsTheConversation == SentFits /\ SentIsTheConversation

\* Whatever else is left out, the running Turn is told in full.
RunningTurnIsSent ==
  phase = "sent" =>
    \A m \in Range(Said) : \E k \in DOMAIN posted.messages : Origins(<<m>>) = Origins(<<posted.messages[k]>>)

=============================================================================
