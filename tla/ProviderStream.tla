--------------------------- MODULE ProviderStream ---------------------------
(* One attempt to generate a message, from the frames of the server to what    *)
(* the Agent is shown and what it commits.  Three adapters assemble a message  *)
(* from frames by different rules (integrations/providers/openai_responses.py, *)
(* anthropic.py, openai_compat.py); validated_provider_stream of               *)
(* core/provider.py holds the result back until the stream has ended, and the  *)
(* Agent drops it when the Turn was cancelled meanwhile.                       *)
(*                                                                             *)
(* The server is honest: it has a message of some items in mind, each of       *)
(* Pieces pieces, and its frames describe that message.  It may leave out      *)
(* frames that others make up for, interleave items where the protocol lets    *)
(* it, repeat a frame (Responses only, where frames are numbered), stop at its *)
(* output limit, fail, or lose the connection anywhere.                        *)
EXTENDS Naturals, Sequences, Selection

CONSTANTS Messages,        \* the messages a server may have in mind: kinds of items
          Pieces,          \* pieces of each item
          MaxRepeats       \* bound on repeated frames

ASSUME StreamAssumption ==
  /\ Messages \subseteq Seq({"text", "reasoning", "call"})
  /\ Pieces \in Nat \ {0} /\ MaxRepeats \in Nat

VARIABLES
  api,         \* "responses", "messages" (Anthropic) or "chat"
  meant,       \* what the server has in mind
  stage,       \* the last frame it sent of each item, as a stage
  server,      \* "streaming", "complete" or "length": its terminal frame, "gone"
  item,        \* the adapter's state of each item
  order,       \* the items in the order of their first piece (part_order)
  shown,       \* pieces of each item that were published
  announced,        \* what was published of each call
  repeats,     \* frames repeated so far (bounded)
  token,       \* the cancellation token
  outcome,     \* "streaming", "closing", "completed", "failed", "cancelled"
  answer       \* the parts of the committed message

streamVars == <<api, meant, stage, server, item, order, shown, announced, repeats, token, outcome, answer>>

(* The frames of an item: 1 opens it, 2 .. Pieces + 1 carry its pieces, then    *)
(* its text as a whole, then the item as a whole.                              *)
Opened == 1
Text == Pieces + 2
Whole == Pieces + 3
Deltas == 2 .. Pieces + 1

Items == DOMAIN meant
Fresh == [pieces |-> 0, done |-> FALSE]

StreamInit ==
  /\ api \in {"responses", "messages", "chat"} /\ meant \in Messages
  /\ stage = [i \in Items |-> 0] /\ server = "streaming"
  /\ item = [i \in Items |-> Fresh] /\ order = <<>>
  /\ shown = [i \in Items |-> 0] /\ announced = [i \in Items |-> "nothing"]
  /\ repeats = 0 /\ token = FALSE /\ outcome = "streaming" /\ answer = <<>>

----------------------------------------------------------------------------
(* The server.  Responses: pieces may be left out altogether, and any whole.   *)
(* Messages: every frame but the text as a whole, one item after the other.    *)
(* Chat: pieces only; the pieces of several calls may be mixed.                *)
Sent(i) == IF stage[i] \in Deltas THEN stage[i] - 1 ELSE IF stage[i] > Pieces THEN Pieces ELSE 0
Begun(i) == stage[i] > 0
IsCall(i) == meant[i] = "call"

Sends(i, t) ==
  \/ /\ api = "responses" /\ t > stage[i]
     /\ stage[i] \in 2 .. Pieces \/ t \in 3 .. Pieces + 1 => t = stage[i] + 1
  \/ /\ api = "messages"
     /\ t = IF stage[i] = Pieces + 1 THEN Whole ELSE stage[i] + 1
     /\ \A j \in 1 .. i - 1 : stage[j] = Whole
  \/ /\ api = "chat"
     /\ t \in Deltas /\ t = IF stage[i] = 0 THEN 2 ELSE stage[i] + 1
     /\ \A j \in 1 .. i - 1 : stage[j] > Pieces \/ (Begun(j) /\ IsCall(i) /\ IsCall(j))

----------------------------------------------------------------------------
(* What an adapter makes of a frame.                                          *)
Tells(i, what) == announced' = IF IsCall(i) THEN [announced EXCEPT ![i] = what] ELSE announced
TellsNothing == UNCHANGED announced
Adds(i) == item' = [item EXCEPT ![i].pieces = @ + 1]
Shows(i) == shown' = [shown EXCEPT ![i] = @ + 1]
Rejects == outcome' = "failed" /\ UNCHANGED <<item, order, shown, announced>>
Accepts == UNCHANGED outcome

(* Responses: a whole is compared with the pieces that came before it, if any; *)
(* only a call is compared with the item as a whole.                           *)
ResponsesOpen(i) == Accepts /\ Tells(i, "started") /\ UNCHANGED <<item, order, shown>>
ResponsesPiece(i) == Accepts /\ Adds(i) /\ Shows(i) /\ UNCHANGED <<order, announced>>
Agrees(i) == item[i].pieces \in {0, Pieces}
ResponsesText(i) ==
  IF Agrees(i) THEN Accepts /\ item' = [item EXCEPT ![i].pieces = Pieces] /\ UNCHANGED <<order, shown, announced>>
  ELSE Rejects
ResponsesWhole(i) ==
  IF IsCall(i) /\ ~Agrees(i) THEN Rejects
  ELSE /\ Accepts /\ Tells(i, "completed")
       /\ item' = [item EXCEPT ![i] = [pieces |-> IF IsCall(i) THEN Pieces ELSE @.pieces, done |-> TRUE]]
       /\ UNCHANGED <<order, shown>>

(* Messages: content blocks with an index, opened and stopped once.           *)
MessagesOpen(i) == ResponsesOpen(i)
MessagesPiece(i) == ResponsesPiece(i)
MessagesStop(i) ==
  /\ Accepts /\ Tells(i, "completed") /\ item' = [item EXCEPT ![i].done = TRUE]
  /\ UNCHANGED <<order, shown>>

(* Chat: calls are published at the end of the stream only.                   *)
ChatContent(i) == Shows(i) /\ ~IsCall(i)
ChatArguments(i) == UNCHANGED shown /\ IsCall(i)
ChatPiece(i) ==
  /\ Accepts /\ Adds(i) /\ TellsNothing
  /\ ChatContent(i) \/ ChatArguments(i)
  /\ order' = IF \E k \in DOMAIN order : order[k] = i THEN order ELSE Append(order, i)

Frame(i, t) ==
  \/ /\ api = "responses"
     /\ \/ t = Opened /\ ResponsesOpen(i)
        \/ t \in Deltas /\ ResponsesPiece(i)
        \/ t = Text /\ ResponsesText(i)
        \/ t = Whole /\ ResponsesWhole(i)
  \/ /\ api = "messages"
     /\ \/ t = Opened /\ MessagesOpen(i)
        \/ t \in Deltas /\ MessagesPiece(i)
        \/ t = Whole /\ MessagesStop(i)
  \/ api = "chat" /\ t \in Deltas /\ ChatPiece(i)

(* next_stream_value: a cancellation wins over a value that has arrived.      *)
Listening == outcome = "streaming" /\ ~token

ReceiveFrame(i, t) ==
  /\ Listening /\ server = "streaming" /\ Sends(i, t)
  /\ stage' = [stage EXCEPT ![i] = t]
  /\ Frame(i, t)
  /\ UNCHANGED <<api, meant, server, repeats, token, answer>>

RepeatAgain(i) ==                     \* without _remember_frame
  /\ Listening /\ api = "responses" /\ server = "streaming" /\ Begun(i)
  /\ repeats < MaxRepeats /\ repeats' = repeats + 1
  /\ Frame(i, stage[i])
  /\ UNCHANGED <<api, meant, stage, server, token, answer>>

(* A frame with the number and the content of an earlier one is dropped.      *)
Repeat(i) ==
  /\ Listening /\ api = "responses" /\ server = "streaming" /\ Begun(i)
  /\ repeats < MaxRepeats /\ repeats' = repeats + 1
  /\ UNCHANGED <<api, meant, stage, server, item, order, shown, announced, token, outcome, answer>>

(* The terminal frame.  "length": the server has reached its output limit, and *)
(* leaves the item it was at unfinished.                                       *)
ResponsesTerminal(how) ==                 \* carries all items as wholes
  \/ /\ how = "complete" /\ \A i \in Items : Sent(i) \in {0, Pieces}
     /\ item' = [i \in Items |-> [item[i] EXCEPT !.done = TRUE]] /\ UNCHANGED outcome
  \/ how = "length" /\ outcome' = "failed" /\ UNCHANGED item

MessagesTerminal(how) ==                  \* stop reason and stop, after the open block's
  /\ how = "complete" => \A i \in Items : stage[i] = Whole
  /\ item' = [i \in Items |-> [item[i] EXCEPT !.done = @ \/ Begun(i)]]
  /\ UNCHANGED outcome

ChatTerminal(how) ==                      \* finish_reason
  /\ how = "complete" => \A i \in Items : stage[i] = Pieces + 1
  /\ UNCHANGED <<item, outcome>>

Terminal(how) ==
  /\ Listening /\ server = "streaming"
  /\ how = "length" => \E i \in Items : Begun(i)
  /\ server' = how
  /\ \/ api = "responses" /\ ResponsesTerminal(how)
     \/ api = "messages" /\ MessagesTerminal(how)
     \/ api = "chat" /\ ChatTerminal(how)
  /\ UNCHANGED <<api, meant, stage, order, shown, announced, repeats, token, answer>>

(* An error frame, a frame after the terminal one, a lost connection or a      *)
(* failing read; the chat adapter does not look at what follows the finish.    *)
Break ==
  /\ Listening
  /\ outcome' = "failed" /\ server' = "gone"
  /\ UNCHANGED <<api, meant, stage, item, order, shown, announced, repeats, token, answer>>

----------------------------------------------------------------------------
(* The end of the stream.  Responses: the whole of an item wins over its       *)
(* pieces, a call keeps its pieces.                                            *)
ResponsesParts ==
  [i \in Items |-> [kind |-> meant[i],
                    pieces |-> IF IsCall(i) /\ item[i].pieces > 0 THEN item[i].pieces ELSE Pieces]]

PartsOf(indices) ==
  [k \in DOMAIN indices |-> [kind |-> meant[indices[k]], pieces |-> item[indices[k]].pieces]]
MessagesParts == PartsOf(Selected([i \in Items |-> i], {i \in Items : Begun(i)}))
ChatParts == PartsOf(order)

Parts == CASE api = "responses" -> ResponsesParts
           [] api = "messages" -> MessagesParts
           [] api = "chat" -> ChatParts
Parses == \A k \in DOMAIN Parts : Parts[k].kind = "call" => Parts[k].pieces = Pieces

EndOfStream ==
  /\ Listening /\ server # "gone"
  /\ server' = "gone"
  /\ IF server \in {"complete", "length"} /\ Parses /\ (api # "chat" => \A i \in Items : Begun(i) => item[i].done)
     THEN outcome' = "closing" /\ answer' = Parts
     ELSE outcome' = "failed" /\ UNCHANGED answer
  /\ UNCHANGED <<api, meant, stage, item, order, shown, announced, repeats, token>>

(* The chat adapter's post_events.                                             *)
PublishCalls ==
  IF api = "chat"
  THEN /\ shown' = [i \in Items |-> IF meant[i] = "call" THEN item[i].pieces ELSE shown[i]]
       /\ announced' = [i \in Items |-> IF meant[i] = "call" /\ item[i].pieces > 0 THEN "completed" ELSE announced[i]]
  ELSE UNCHANGED <<shown, announced>>

(* The connection is closed before the result is given away, and the Agent     *)
(* looks at the token before it takes it.                                      *)
CloseStream ==
  /\ outcome = "closing"
  /\ \/ PublishCalls /\ outcome' = IF token THEN "cancelled" ELSE "completed"
     \/ outcome' = "failed" /\ UNCHANGED <<shown, announced>>
  /\ UNCHANGED <<api, meant, stage, server, item, order, repeats, token, answer>>

CancelAttempt ==
  /\ ~token /\ outcome \in {"streaming", "closing"} /\ token' = TRUE
  /\ UNCHANGED <<api, meant, stage, server, item, order, shown, announced, repeats, outcome, answer>>

StopListening ==
  /\ outcome = "streaming" /\ token
  /\ outcome' = "cancelled"
  /\ UNCHANGED <<api, meant, stage, server, item, order, shown, announced, repeats, token, answer>>

StreamNext ==
  \/ \E i \in Items : Repeat(i) \/ \E t \in 1 .. Whole : ReceiveFrame(i, t)
  \/ \E how \in {"complete", "length"} : Terminal(how)
  \/ Break \/ EndOfStream \/ CloseStream \/ CancelAttempt \/ StopListening

StreamSpec == StreamInit /\ [][StreamNext]_streamVars

----------------------------------------------------------------------------
(* What the Agent commits is the message the server had in mind, or its        *)
(* beginning where the server hit its limit: the same items in the same order, *)
(* with all the pieces that were sent, and every call with all its arguments.  *)
(* What the user was shown of an item while it streamed is what was committed, *)
(* neither less nor twice, and a call whose frames came was announced.         *)
CommittedIsMeant ==
  outcome = "completed" =>
    /\ {i \in Items : Begun(i)} \subseteq DOMAIN answer
    /\ \A k \in DOMAIN answer :
         /\ answer[k].kind = meant[k]
         /\ answer[k].pieces = Pieces \/ (meant[k] # "call" /\ answer[k].pieces = Sent(k))
         /\ shown[k] \in {0, answer[k].pieces}
         /\ meant[k] = "call" /\ (api = "chat" \/ stage[k] = Whole) => announced[k] = "completed"
=============================================================================
