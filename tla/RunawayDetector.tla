--------------------------- MODULE RunawayDetector ---------------------------
(* The detector of turns that go round in circles (core/agent.py): the model   *)
(* repeats a failing call, a short cycle of calls with the same results, or a  *)
(* final answer that is refused.  The third time it is told so, the fifth time *)
(* the turn is stopped; a new fact forgets the suspicion.                      *)
(*                                                                             *)
(* A call is [action, result, failure, evidence]: the digests of its name and  *)
(* arguments and of its result, the kind of its failure or NoFailure, and what *)
(* the Tool vouches for: "none", "read" of a content, a "change" (of a file,   *)
(* output or the end of a process), or an "idle" look at a running process.  A *)
(* "refused" one is a final answer that the plan, its result, does not admit.  *)
EXTENDS Naturals, Sequences, FiniteSets

LOCAL INSTANCE FiniteSetsExt

CONSTANTS
  Habits,        \* the sequences of calls that the model falls into
  Surprises,     \* the calls with which it leaves its habit
  NoFailure, NoKey,
  Longest,       \* the longest cycle that is looked for
  WarnAt, StopAt,
  Remembered,    \* how many observations are kept
  MaxSurprises, MaxMade     \* bounds: calls out of habit, calls in all

ASSUME DetectorAssumption ==
  Longest \in Nat \ {0} /\ WarnAt \in 2..StopAt /\ Remembered >= StopAt * Longest

VARIABLES
  observations,  \* the latest <<action, result>>, at most Remembered
  lastSuccess,   \* the last successful <<action, result>> of the latest actions
  streak,        \* the failing action and how often it failed in a row
  cycle,         \* the cycle that ends the observations
  refused,       \* the refused final answer
  verdict,       \* "none", "correct" or "stop"
  habit, made, surprised,
  history, moments,    \* ghosts: the calls since the last new fact, the moments (lengths
                 \* of history) at which the model was corrected
  blocked        \* ghost: the refused final answers since the last new fact
detectorVars == <<observations, lastSuccess, streak, cycle, refused, verdict,
                  habit, made, surprised, history, moments, blocked>>

----------------------------------------------------------------------------
(* A suspicion is a key, how often it was confirmed and whether the model has  *)
(* been corrected for it.                                                      *)
Trust == [key |-> NoKey, count |-> 0, corrected |-> FALSE]

Judge(s) ==
  CASE s.count >= WarnAt /\ ~s.corrected -> "correct"
    [] s.count >= StopAt /\ s.corrected  -> "stop"
    [] OTHER                             -> "none"

Judged(s) == [s EXCEPT !.corrected = s.corrected \/ s.count >= WarnAt]

Again(s, key) == IF s.key = key THEN [s EXCEPT !.count = @ + 1] ELSE [Trust EXCEPT !.key = key, !.count = 1]

Tail_(s, n) == SubSeq(s, Len(s) - n + 1, Len(s))

\* How often the last l elements of s are there in a row at its end.
Repetitions(s, l) ==
  Max({0} \cup {k \in 1..(Len(s) \div l) : \A i \in Len(s) - k * l + 1..Len(s) - l : s[i] = s[i + l]})

\* Mutant: a cycle that is seen in another phase is another cycle.
RotationsAsSeen(b) == {b}

Rotations(b) == {SubSeq(b, i + 1, Len(b)) \o SubSeq(b, 1, i) : i \in 0..Len(b) - 1}

\* The shortest block that is there often enough, whatever its phase is.
CycleIn(s) ==
  LET lengths == {l \in 1..Longest : Repetitions(s, l) >= WarnAt}
      l == Min(lengths)
      key == Rotations(Tail_(s, l))
      n == Repetitions(s, l)
  IN IF lengths = {} THEN Trust
     ELSE IF cycle.key = key THEN [cycle EXCEPT !.count = Max({n, cycle.count})]
     ELSE [Trust EXCEPT !.key = key, !.count = n]

Remember(s, token) == Tail_(Append(s, token), Min({Remembered, Len(s) + 1}))

\* A result replaces the last one of its action; a new action may evict the oldest.
Learned(token) ==
  IF \E i \in DOMAIN lastSuccess : lastSuccess[i][1] = token[1]
    THEN [i \in DOMAIN lastSuccess |-> IF lastSuccess[i][1] = token[1] THEN token ELSE lastSuccess[i]]
    ELSE Remember(lastSuccess, token)

----------------------------------------------------------------------------
DetectorInit ==
  /\ observations = <<>> /\ lastSuccess = <<>> /\ streak = Trust /\ cycle = Trust /\ refused = Trust
  /\ verdict = "none" /\ habit \in Habits /\ made = 0 /\ surprised = 0 /\ history = <<>> /\ moments = {} /\ blocked = <<>>

Token(c) == <<c.action, c.result>>

\* A first read, another result of an action and a vouched change are new facts.
IsNews(c) ==
  /\ c.failure = NoFailure
  /\ LET known == \E i \in DOMAIN lastSuccess : lastSuccess[i][1] = c.action
         changed == known /\ \A i \in DOMAIN lastSuccess : lastSuccess[i] # Token(c)
     IN c.evidence = "change" \/ changed \/ (c.evidence = "read" /\ ~known)

Note(c, before) ==
  /\ history' = Append(before, <<c.action, c.result, c.failure>>)
  /\ moments' = (IF before = <<>> THEN {} ELSE moments) \cup (IF verdict' = "correct" THEN {Len(before) + 1} ELSE {})

(* A call that succeeded: a new fact forgets everything that was suspected,    *)
(* any success ends the streak of failures, then the cycle is looked for.      *)
RecordSuccess(c) ==
  /\ c.failure = NoFailure /\ c.evidence \in {"none", "read", "change"}
  /\ lastSuccess' = Learned(Token(c))
  /\ streak' = Trust
  /\ LET kept == IF IsNews(c) THEN <<>> ELSE observations
         found == CycleIn(Remember(kept, Token(c)))
     IN /\ observations' = Remember(kept, Token(c))
        /\ cycle' = Judged(found) /\ verdict' = Judge(found)
        /\ refused' = IF IsNews(c) THEN Trust ELSE refused
  /\ Note(c, IF IsNews(c) THEN <<>> ELSE history)
  /\ blocked' = IF IsNews(c) THEN <<>> ELSE blocked

\* A call that failed: the streak comes first, and the cycle is not asked when it stops the turn.
RecordFailure(c) ==
  /\ c.failure # NoFailure
  /\ LET failing == Again(streak, <<c.action, c.failure>>)
         found == CycleIn(Remember(observations, Token(c)))
     IN /\ streak' = Judged(failing)
        /\ IF Judge(failing) = "stop"
             THEN verdict' = "stop" /\ UNCHANGED <<observations, cycle>>
             ELSE /\ observations' = Remember(observations, Token(c))
                  /\ cycle' = Judged(found)
                  /\ verdict' = IF Judge(failing) = "correct" THEN "correct" ELSE Judge(found)
  /\ Note(c, history)
  /\ UNCHANGED <<lastSuccess, refused, blocked>>

\* A look at a process that runs and says nothing is neither progress nor a repetition.
RecordIdle(c) ==
  /\ c.failure = NoFailure /\ c.evidence = "idle"
  /\ verdict' = "none"
  /\ UNCHANGED <<observations, lastSuccess, streak, cycle, refused, history, moments, blocked>>

\* The unfinished tasks and the plan, here the result, refuse a final answer (agent.py 1712).
RecordFinalBlock(c) ==
  /\ c.evidence = "refused"
  /\ LET found == Again(refused, c.result) IN refused' = Judged(found) /\ verdict' = Judge(found)
  /\ blocked' = Append(blocked, c.result)
  /\ UNCHANGED <<observations, lastSuccess, streak, cycle, history, moments>>

RecordCall(c) == RecordSuccess(c) \/ RecordFailure(c) \/ RecordIdle(c) \/ RecordFinalBlock(c)

StepOfHabit ==
  /\ verdict # "stop" /\ made < MaxMade /\ made' = made + 1
  /\ RecordCall(habit[(made % Len(habit)) + 1])
  /\ UNCHANGED <<habit, surprised>>

StepOutOfHabit ==
  /\ verdict # "stop" /\ surprised < MaxSurprises /\ surprised' = surprised + 1
  /\ \E c \in Surprises : RecordCall(c)
  /\ UNCHANGED <<habit, made>>

\* What the user says while the turn runs is a new fact (agent.py 1867), and so is an answer
\* to a question (2084), a change of the task list (2932) and a new plan (2979).
HearUser ==
  /\ verdict # "stop" /\ surprised < MaxSurprises /\ surprised' = surprised + 1
  /\ observations' = <<>> /\ streak' = Trust /\ cycle' = Trust /\ refused' = Trust
  /\ verdict' = "none" /\ history' = <<>> /\ moments' = {} /\ blocked' = <<>>
  /\ UNCHANGED <<lastSuccess, habit, made>>

DetectorNext == StepOfHabit \/ StepOutOfHabit \/ HearUser
DetectorSpec == DetectorInit /\ [][DetectorNext]_detectorVars

----------------------------------------------------------------------------
\* The last n * l calls are n times the same l calls.
Looped(n, l) ==
  n * l <= Len(history) /\ \A i \in Len(history) - n * l + 1..Len(history) - l :
                          SubSeq(history[i], 1, 2) = SubSeq(history[i + l], 1, 2)

FailedAlike(n) ==
  n <= Len(history) /\ LET alike == {<<history[i][1], history[i][3]>> : i \in Len(history) - n + 1..Len(history)}
                    IN Cardinality(alike) = 1 /\ \A a \in alike : a[2] # NoFailure

BlockedAlike(n) ==
  n <= Len(blocked) /\ \A i \in Len(blocked) - n + 1..Len(blocked) : blocked[i] = blocked[Len(blocked)]

(* Runs of the same call inside a longer cycle are a suspicion of their own,   *)
(* and each of the two suspicions forgets the other: such a cycle is corrected *)
(* several times in each round, and stopped a call later than others.          *)
HasRuns(l) == l > 1 /\ \E i \in 1..Len(history) : i > Len(history) - WarnAt * l /\ i + WarnAt - 1 <= Len(history)
                     /\ \A j \in i..i + WarnAt - 1 : history[j][1] = history[i][1] /\ history[j][2] = history[i][2]

(* A turn that repeats itself without a new fact - a failure, a cycle in any   *)
(* phase or a refused answer - is stopped at its fifth repetition, and never   *)
(* stopped otherwise: not before the model was corrected for this repetition   *)
(* at the third one (core/agent.py 358 and 396).                               *)
LoopsAreCutShort ==
  /\ verdict = "stop" =>
       \/ BlockedAlike(StopAt)
       \/ FailedAlike(StopAt) /\ Len(history) - (StopAt - WarnAt) \in moments
       \/ \E l \in 1..Longest : Looped(StopAt, l) /\ (HasRuns(l) \/ Len(history) - (StopAt - WarnAt) * l \in moments)
  /\ (\/ BlockedAlike(StopAt) \/ FailedAlike(StopAt)
      \/ \E l \in 1..Longest : Looped(StopAt, l) /\ ~HasRuns(l)) => verdict = "stop"
=============================================================================
