----------------------------- MODULE MCContext -----------------------------
(* Compaction, the requests it makes room for and the summaries of its epochs, *)
(* which share no variable: a behaviour is about one of them, the topic.       *)
EXTENDS CompactionProperties, ContextRequest, EpochSummary

VARIABLE topic

----------------------------------------------------------------------------
(* Turns: a long answer, an image, two results of which one is long, and a     *)
(* result the user steers behind.                                              *)
MCPart(k, n, c) == [kind |-> k, size |-> n, call |-> c, from |-> <<0, 0, 0>>]
MCSay(r, ps) == [role |-> r, parts |-> ps]
MCAsk == MCSay("user", <<MCPart("text", 60, 0)>>)
MCTell(n) == MCSay("assistant", <<MCPart("text", n, 0)>>)
MCScripts ==
  {<<MCAsk, MCTell(110)>>,
   <<MCSay("user", <<MCPart("text", 60, 0), MCPart("image", 0, 0)>>), MCTell(60)>>,
   <<MCAsk, MCSay("assistant", <<MCPart("text", 20, 0), MCPart("call", 10, 1), MCPart("call", 10, 2)>>),
     MCSay("tool", <<MCPart("result", 700, 1), MCPart("result", 150, 2)>>), MCTell(60)>>,
   <<MCAsk, MCSay("assistant", <<MCPart("call", 10, 1)>>), MCSay("tool", <<MCPart("result", 150, 1)>>),
     MCAsk, MCTell(60)>>}

(* Turns that are due: small ones and one that may join them, one that needs   *)
(* the whole request, a text to cut among others, an entry without a text that *)
(* fits nowhere, entries for a request each, and no room for a character.      *)
MCEntry(h, t) == [head |-> h, text |-> t]
MCSmall == <<MCEntry(1, <<1>>)>>
MCDues ==
  {<<<<MCEntry(1, <<1, 1>>), MCEntry(1, NoText)>>, MCSmall, <<MCEntry(2, <<1, 1, 2>>)>>>>,
   <<<<MCEntry(1, <<1, 2>>)>>, <<MCEntry(9, <<>>), MCEntry(9, NoText)>>>>,
   <<<<MCEntry(1, <<2, 2>>), MCEntry(1, <<1, 3, 2, 1, 2, 3, 1, 2, 2>>), MCEntry(2, NoText), MCEntry(3, <<1>>)>>>>,
   <<<<MCEntry(1, <<1, 1>>), MCEntry(40, NoText)>>, MCSmall>>,
   <<<<MCEntry(6, <<>>), MCEntry(6, <<1>>), MCEntry(6, <<>>)>>>>,
   <<<<MCEntry(22, <<1, 1, 1>>)>>>>}

MCFrame == [k \in {"turn", "epoch", "aging", "parts", "folds", "summary"} |->
              CASE k = "turn" -> 4 [] k = "aging" -> 1 [] k = "summary" -> 1 [] OTHER -> 2]

----------------------------------------------------------------------------
Topics == {"compaction", "requests", "summaries"}

ContextInit ==
  /\ topic \in Topics /\ Init /\ RequestInit /\ SummaryInit
  /\ topic # "summaries" => due = <<<<MCEntry(22, <<1, 1, 1>>)>>>> /\ plan.kind = "compaction"

ContextNext ==
  \/ topic = "compaction" /\ Next /\ UNCHANGED <<topic, requestVars, summaryVars>>
  \/ topic = "requests" /\ RequestNext /\ UNCHANGED <<topic, vars, summaryVars>>
  \/ topic = "summaries" /\ SummaryNext /\ UNCHANGED <<topic, vars, requestVars>>

ContextSpec == ContextInit /\ [][ContextNext]_<<topic, vars, requestVars, summaryVars>>

(* Only a pass of compaction has to end: fairness is its own.                  *)
ContextFairSpec == ContextSpec /\ Fairness
=============================================================================
