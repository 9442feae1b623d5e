---------------------------- MODULE EpochSummary ----------------------------
(* How one epoch of a compaction is summarised (core/compaction.py, and its    *)
(* loop in application/context.py): which complete Turns go into one request,  *)
(* how a Turn that is too large for one is cut into subpasses whose summaries  *)
(* are folded in rounds, what is accepted of the Provider's replies, and the   *)
(* second attempt.  Timeline.tla says which Turns are due, Compaction.tla what *)
(* becomes of the candidate.                                                   *)
(*                                                                             *)
(* A Turn is a sequence of entries [head, text]: the bytes of its encoding     *)
(* without its text, and the widths of the text's characters, or NoText.       *)
EXTENDS Naturals, Sequences, FiniteSets

LOCAL INSTANCE SequencesExt
LOCAL INSTANCE FiniteSetsExt

CONSTANTS
  Dues,          \* the complete Turns that are due, oldest first
  NoText,
  BytesPerToken, Available, HardCap,
  Frame,            \* the bytes around the parts of each kind of text
  FoldRounds, Attempts,
  Slips,            \* what a structured reply may get wrong
  SummarySizes,     \* the bytes of a summary
  None

ASSUME SummaryAssumption ==
  /\ BytesPerToken \in Nat \ {0} /\ HardCap \in 1..Available /\ FoldRounds \in Nat \ {0} /\ Attempts \in Nat \ {0}
  /\ Frame \in [{"turn", "epoch", "aging", "parts", "folds", "summary"} -> Nat]

VARIABLES
  due,        \* the Turns
  plan,       \* the epoch: [kind, requests, turns], a request being its bytes and what it is made of
  step,       \* "plan", "ask", "fold", "build", "done" or a failure
  asked,      \* the request that is being answered
  answers,    \* the summaries of the round so far
  stages,     \* the completed rounds, subpasses first
  attempt, cancelled,
  entries,    \* the candidate: summaries with the Turns they cover
  sent        \* ghost: the requests of this attempt
summaryVars == <<due, plan, step, asked, answers, stages, attempt, cancelled, entries, sent>>

----------------------------------------------------------------------------
(* Sizes.  A text frames its parts and joins them by a byte: a Turn its        *)
(* entries, a request Turns, entries or summaries.                             *)
Total(bytes) == FoldLeft(LAMBDA a, b : a + b, 0, bytes)
Estimate(bytes) == (bytes + BytesPerToken - 1) \div BytesPerToken
Joined(kind, parts) == Frame[kind] + Total(parts) + Len(parts) - 1
Fits(kind, parts) == Estimate(Joined(kind, parts)) <= Available

Bytes(e) == e.head + (IF e.text = NoText THEN 0 ELSE Total(e.text))
TurnBytes(t) == Joined("turn", [i \in DOMAIN t |-> Bytes(t[i])])

(* The epoch of a kind: the longest run of due Turns that fits one request.    *)
TextOf(kind) == IF kind = "aging" THEN "aging" ELSE "epoch"
EpochLength(kind) ==
  Max({0} \cup {n \in 1..Len(due) : Fits(TextOf(kind), [i \in 1..n |-> TurnBytes(due[i])])})

(* A text that fits no request is cut where the next character would not fit,  *)
(* the cut being found by bisection; without a text there is no plan.          *)
Segments(e) ==
  LET n == Len(e.text)
      most(o) == Max({0} \cup {k \in 1..n - o : Fits("parts", <<e.head + Total(SubSeq(e.text, o + 1, o + k))>>)})
      from[o \in 0..n] == IF o = n THEN <<>>
                          ELSE IF most(o) = 0 THEN <<None>>
                          ELSE <<<<o + 1, o + most(o)>>>> \o from[o + most(o)]
  IN IF e.text \in {NoText, <<>>} THEN <<None>> ELSE from[0]

Whole == <<0, 0>>
Subpass(t, members, part) ==
  [of |-> members, part |-> part,
   bytes |-> Joined("parts", IF part = Whole THEN [i \in DOMAIN members |-> Bytes(t[members[i]])]
                    ELSE <<t[members[1]].head + Total(SubSeq(t[members[1]].text, part[1], part[2]))>>)]

Flush(t, members) == IF members = <<>> THEN <<>> ELSE <<Subpass(t, members, Whole)>>

(* The subpasses of an oversized Turn: entries are packed as long as they fit, *)
(* and one that does not fit alone is cut.                                     *)
Packed(t) ==
  LET add(acc, i) ==
        IF Fits("parts", [j \in 1..Len(acc.open) + 1 |-> Bytes(t[(Append(acc.open, i))[j]])])
          THEN [acc EXCEPT !.open = Append(@, i)]
        ELSE IF Fits("parts", <<Bytes(t[i])>>)
          THEN [done |-> acc.done \o Flush(t, acc.open), open |-> <<i>>]
        ELSE [done |-> acc.done \o Flush(t, acc.open)
                         \o [j \in DOMAIN Segments(t[i]) |->
                               IF Segments(t[i])[j] = None THEN None ELSE Subpass(t, <<i>>, Segments(t[i])[j])],
              open |-> <<>>]
  IN FoldLeft(add, [done |-> <<>>, open |-> <<>>], [i \in DOMAIN t |-> i])

SubpassesUnflushed(t) == Packed(t).done
Subpasses(t) == LET all == Packed(t) IN all.done \o Flush(t, all.open)

----------------------------------------------------------------------------
(* One round that folds summaries: none is needed when they fit one request    *)
(* and together are a summary, none is possible when one alone does not fit.   *)
Encoded(s) == Frame["summary"] + s

FoldsOf(summaries) ==
  LET add(acc, i) ==
        IF Fits("folds", [j \in 1..Len(acc.open) + 1 |-> Encoded(summaries[(Append(acc.open, i))[j]])])
          THEN [acc EXCEPT !.open = Append(@, i)]
          ELSE [done |-> IF acc.open = <<>> THEN acc.done ELSE Append(acc.done, acc.open), open |-> <<i>>]
      all == FoldLeft(add, [done |-> <<>>, open |-> <<>>], [i \in DOMAIN summaries |-> i])
      folds == Append(all.done, all.open)
  IN [k \in DOMAIN folds |->
        [of |-> folds[k], part |-> Whole,
         bytes |-> Joined("folds", [j \in DOMAIN folds[k] |-> Encoded(summaries[folds[k][j]])])]]

AsOne(summaries) == Total(summaries) + Len(summaries) - 1
IsOne(summaries) ==
  Fits("folds", [i \in DOMAIN summaries |-> Encoded(summaries[i])]) /\ Estimate(AsOne(summaries)) <= HardCap
Foldable(summaries) ==
  /\ \A i \in DOMAIN summaries : summaries[i] # None /\ Estimate(summaries[i]) <= HardCap
  /\ IsOne(summaries) \/ \A i \in DOMAIN summaries : Fits("folds", <<Encoded(summaries[i])>>)

(* The builder of the candidate plans every round again and takes the folded   *)
(* summaries of that round.                                                    *)
BuilderRounds == FoldRounds
Builds(all) ==
  LET next(s, r) ==
        IF s.end # None THEN s
        ELSE IF ~Foldable(s.current) THEN [s EXCEPT !.end = "unplannable"]
        ELSE IF IsOne(s.current) THEN [s EXCEPT !.end = IF s.at = Len(all) THEN "built" ELSE "extra rounds"]
        ELSE IF s.at = Len(all) THEN [s EXCEPT !.end = "fold required"]
        ELSE IF Len(all[s.at + 1]) # Len(FoldsOf(s.current)) THEN [s EXCEPT !.end = "count"]
        ELSE [s EXCEPT !.current = all[s.at + 1], !.at = @ + 1]
      end == FoldLeft(next, [current |-> all[1], at |-> 1, end |-> None], [r \in 1..BuilderRounds |-> r])
  IN IF end.end = None THEN "limit" ELSE end.end

----------------------------------------------------------------------------
(* A structured reply gives per entry the Turn, its range and a summary, the   *)
(* coverage, and a summary of all.  One Turn alone may leave everything out    *)
(* but the summary.                                                            *)
RightReply(n, size) ==
  [form |-> "object", entries |-> [i \in 1..n |-> [turn |-> i, refs |-> i, size |-> size]],
   coverage |-> [i \in 1..n |-> i], summary |-> None]

StructuredReply(n, size, slip) ==
  LET r == RightReply(n, size)
  IN CASE slip = "text"        -> [r EXCEPT !.form = "text", !.summary = size]
       [] slip = "short"       -> [r EXCEPT !.entries = SubSeq(@, 1, n - 1)]
       [] slip = "swapped"     -> [r EXCEPT !.entries = Reverse(@)]
       [] slip = "no refs"     -> [r EXCEPT !.entries[n].refs = None]
       [] slip = "other refs"  -> [r EXCEPT !.entries[n].refs = n + 1]
       [] slip = "no coverage" -> [r EXCEPT !.coverage = None]
       [] slip = "other coverage" -> [r EXCEPT !.coverage = Append(@, n + 1)]
       [] slip = "no entries"  -> [r EXCEPT !.entries = None, !.summary = size]
       [] slip = "long"        -> [r EXCEPT !.summary = HardCap * BytesPerToken + 1]
       [] OTHER                -> r

\* What parse_compaction_result makes of it: entries for the n Turns, or None.
ParsedEntries(r, n) ==
  IF r.form = "text" \/ r.entries = None
    THEN IF n = 1 THEN <<[turn |-> 1, refs |-> 1, size |-> r.summary]>> ELSE None
  ELSE IF Len(r.entries) # n THEN None
  ELSE IF \E i \in 1..n : \/ r.entries[i].turn # i
                          \/ r.entries[i].refs = None /\ n > 1
                          \/ r.entries[i].refs \notin {None, i}
    THEN None
  ELSE [i \in 1..n |-> [r.entries[i] EXCEPT !.refs = i]]

ParsedCompaction(r, n) ==
  LET parsed == ParsedEntries(r, n)
      covered == IF r.form = "text" \/ (r.coverage = None /\ n = 1) THEN [i \in 1..n |-> i] ELSE r.coverage
  IN IF \/ parsed = None \/ covered # [i \in 1..n |-> i]
        \/ \E i \in DOMAIN parsed : Estimate(parsed[i].size) > HardCap
        \/ r.summary # None /\ Estimate(r.summary) > HardCap
       THEN None ELSE parsed

\* An aged epoch is one summary, under its last Turn and the ranges of all; its
\* coverage is checked when it is given.
ParsedAging(r, n) ==
  IF \/ r.form # "text" /\ r.entries # None
     \/ r.summary = None \/ Estimate(r.summary) > HardCap
     \/ r.form # "text" /\ r.coverage \notin {None, [i \in 1..n |-> i]}
    THEN None ELSE <<[turn |-> n, refs |-> [i \in 1..n |-> i], size |-> r.summary]>>

----------------------------------------------------------------------------
SummaryInit ==
  /\ due \in Dues /\ plan \in {[kind |-> k, turns |-> 0] : k \in {"compaction", "aging"}}
  /\ step = "plan" /\ asked = <<>> /\ answers = <<>> /\ stages = <<>> /\ attempt = 1
  /\ cancelled = FALSE /\ entries = <<>> /\ sent = <<>>

WholeTurns(kind, n) ==
  <<[of |-> [i \in 1..n |-> i], part |-> Whole, bytes |-> Joined(TextOf(kind), [i \in 1..n |-> TurnBytes(due[i])])]>>

\* The requests of a plan.  An epoch to age is summarised whole or not at all.
Requests(p) ==
  CASE p.kind = "oversized" -> Subpasses(due[1])
    [] p.kind = "aging" /\ p.turns < Len(due) -> <<None>>
    [] OTHER -> WholeTurns(p.kind, p.turns)

Plan ==
  /\ step = "plan"
  /\ \E p \in {IF plan.kind = "compaction" /\ EpochLength(plan.kind) = 0 THEN [kind |-> "oversized", turns |-> 1]
               ELSE [plan EXCEPT !.turns = EpochLength(plan.kind)]} :
       \E requests \in {Requests(p)} :
         LET possible == \A i \in DOMAIN requests : requests[i] # None
         IN /\ plan' = p
            /\ step' = IF cancelled THEN "cancelled" ELSE IF possible THEN "ask" ELSE "no safe epoch"
            /\ asked' = IF possible THEN requests ELSE <<>>
  /\ UNCHANGED <<due, answers, stages, attempt, cancelled, entries, sent>>

\* An exception of an attempt: all of it once more, or the end.
Reject ==
  /\ IF attempt = Attempts
       THEN step' = "repeated failure" /\ UNCHANGED <<attempt, asked>>
       ELSE step' = "ask" /\ attempt' = attempt + 1 /\ asked' = Requests(plan)
  /\ answers' = <<>> /\ stages' = <<>> /\ sent' = <<>>
  /\ UNCHANGED <<due, plan, cancelled, entries>>

Accept(parsed) ==
  /\ entries' = parsed /\ step' = "done" /\ sent' = Append(sent, asked[1])
  /\ UNCHANGED <<due, plan, asked, answers, stages, attempt, cancelled>>

AskEpoch(size, slip) ==
  /\ step = "ask" /\ plan.kind \in {"compaction", "aging"} /\ ~cancelled
  /\ \E parsed \in {IF plan.kind = "aging" THEN ParsedAging(StructuredReply(plan.turns, size, slip), plan.turns)
                     ELSE ParsedCompaction(StructuredReply(plan.turns, size, slip), plan.turns)} :
       IF parsed = None THEN Reject ELSE Accept(parsed)

(* A part is summarised: a summary above the cap ends the attempt, a reported  *)
(* failure is noticed when the round is over.                                  *)
AskPart(size) ==
  /\ step = "ask" /\ plan.kind = "oversized" /\ ~cancelled
  /\ IF size # None /\ Estimate(size) > HardCap THEN Reject
     ELSE /\ answers' = Append(answers, size)
          /\ sent' = Append(sent, asked[Len(answers) + 1])
          /\ step' = IF Len(answers) + 1 = Len(asked) THEN "fold" ELSE "ask"
          /\ UNCHANGED <<due, plan, asked, stages, attempt, cancelled, entries>>

PlanFold ==
  /\ step = "fold"
  /\ IF Len(stages) = FoldRounds \/ ~Foldable(answers) THEN Reject
     ELSE /\ stages' = Append(stages, answers)
          /\ IF IsOne(answers) THEN step' = "build" /\ UNCHANGED <<asked, answers>>
             ELSE step' = "ask" /\ asked' = FoldsOf(answers) /\ answers' = <<>>
          /\ UNCHANGED <<due, plan, attempt, cancelled, entries, sent>>

(* The builder refuses rounds that are not its own with an exception, and ends *)
(* with a failure when there is no such round.                                 *)
BuildCandidate ==
  /\ step = "build"
  /\ CASE Builds(stages) \in {"count", "extra rounds"} -> Reject
       [] Builds(stages) = "built" ->
            /\ step' = "done" /\ entries' = <<[turn |-> 1, refs |-> 1, size |-> AsOne(answers)]>>
            /\ UNCHANGED <<due, plan, asked, answers, stages, attempt, cancelled, sent>>
       [] OTHER ->
            /\ step' = Builds(stages)
            /\ UNCHANGED <<due, plan, asked, answers, stages, attempt, cancelled, entries, sent>>

CancelSummary ==
  /\ step \in {"plan", "ask"} /\ ~cancelled /\ cancelled' = TRUE
  /\ step' = IF step = "ask" THEN "cancelled" ELSE step
  /\ UNCHANGED <<due, plan, asked, answers, stages, attempt, entries, sent>>

SummaryNext ==
  \/ Plan \/ PlanFold \/ BuildCandidate \/ CancelSummary
  \/ \E size \in SummarySizes, slip \in Slips : AskEpoch(size, slip)
  \/ \E size \in SummarySizes \cup {None} : AskPart(size)

SummarySpec == SummaryInit /\ [][SummaryNext]_summaryVars

----------------------------------------------------------------------------
(* What a sequence of subpasses shows of the Turn, one mark for each entry and *)
(* one for each character of a text that was cut.                              *)
Shown(request) ==
  IF request.part = Whole THEN [i \in DOMAIN request.of |-> <<request.of[i], 0>>]
  ELSE [k \in 1..request.part[2] - request.part[1] + 1 |-> <<request.of[1], request.part[1] + k - 1>>]

InTurn(t, cut) ==
  FlattenSeq([i \in DOMAIN t |-> IF i \in cut THEN [k \in DOMAIN t[i].text |-> <<i, k>>] ELSE <<<<i, 0>>>>])

(* A candidate says of each Turn of its epoch, in order, that it is summarised,*)
(* names exactly its range, and stays below the cap; of an aged epoch, that it *)
(* ends with its last Turn and has the ranges of all.  No request of the attempt*)
(* was above the budget, and those of an oversized Turn showed all of it once: *)
(* every entry, and every character of an entry that was cut                   *)
(* (core/compaction.py 746, 1211, 1275 and 1464).                              *)
CandidateIsTheEpoch ==
  /\ \A i \in DOMAIN sent : Estimate(sent[i].bytes) <= Available
  /\ step = "done" => /\ \A i \in DOMAIN entries : Estimate(entries[i].size) <= HardCap
                      /\ [i \in DOMAIN entries |-> <<entries[i].turn, entries[i].refs>>] =
                           IF plan.kind = "aging" THEN <<<<plan.turns, [i \in 1..plan.turns |-> i]>>>>
                           ELSE [i \in 1..plan.turns |-> <<i, i>>]
  /\ step = "done" /\ plan.kind = "oversized" =>
       LET first == SubSeq(sent, 1, Len(stages[1]))
           cut == {first[i].of[1] : i \in {j \in DOMAIN first : first[j].part # Whole}}
       IN FlattenSeq([i \in DOMAIN first |-> Shown(first[i])]) = InTurn(due[1], cut)

(* The rounds that were asked for are the rounds that the builder plans again: *)
(* a folded Turn is never refused for them (context.py 962, compaction.py 1554).*)
FoldsAreBuilt == step = "build" => Builds(stages) = "built"

(* Both: an epoch is summarised whole, in parts that fit and are put together. *)
EpochIsSummarised == CandidateIsTheEpoch /\ FoldsAreBuilt
=============================================================================
