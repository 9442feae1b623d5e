--------------------------- MODULE ContextBudget ---------------------------
(* The numbers that govern one request (core/context.py): what of the input    *)
(* limit is kept back, from where on a conversation is compacted and down to   *)
(* where, and how far a count may be wrong.  An absent number is 0.            *)
EXTENDS Integers

DefaultInputLimit == 256000
Lesser(a, b) == IF a <= b THEN a ELSE b
Greater(a, b) == IF a >= b THEN a ELSE b

\* The configured limit or the default one, tightened by the Provider's.
EffectiveInputLimit(configured, provider) ==
  LET own == IF configured = 0 THEN DefaultInputLimit ELSE configured
  IN IF provider = 0 THEN own ELSE Lesser(own, provider)

WorkingHeadroom(n) ==
  IF n = DefaultInputLimit THEN 48000 ELSE Lesser(48000, Lesser(Greater(512, n \div 20), Greater(1, n - 2)))

\* High Water, and Low Water below it.
AutoGateLimit(n) == n - WorkingHeadroom(n)
FineTimelineBudget(n) == Lesser(n, Lesser(16000, Greater(64, n \div 16)))
RetainedTarget(n) ==
  IF n = DefaultInputLimit THEN 96000
  ELSE Lesser(AutoGateLimit(n) - 1,
              Lesser(48000, Greater(128, n \div 5)) + FineTimelineBudget(n) + Lesser(8000, Greater(64, n \div 32)))

CompactionInputBudget(n) == Lesser(n, Lesser(64000, Greater(256, n \div 4)))
CompactionOutputReserve(n) ==
  IF n = DefaultInputLimit THEN 4096
  ELSE Lesser(Greater(1, CompactionInputBudget(n) - 1), Lesser(4096, Greater(32, n \div 64)))

\* What a count of each kind may be short of; the default window has its own.
Uncertainty(most, least, n, share) == Lesser(most, Lesser(Greater(least, n \div share), n - 1))
SafetyAllowanceFor(n, kind) ==
  IF kind = "pressure" THEN Uncertainty(4096, 64, n, 50)
  ELSE IF kind = "provider" THEN Uncertainty(2048, 32, n, 100)
  ELSE Uncertainty(8192, 128, n, 20)
Allowance(n, kind) ==
  Greater(IF n = DefaultInputLimit THEN 8192 ELSE 0, SafetyAllowanceFor(n, kind))

----------------------------------------------------------------------------
\* ContextBudget.__post_init__ refuses any numbers but these.
BudgetIsOrdered(n) ==
  /\ 0 < WorkingHeadroom(n) /\ 0 < RetainedTarget(n)
  /\ RetainedTarget(n) < AutoGateLimit(n) /\ AutoGateLimit(n) < n
  /\ FineTimelineBudget(n) \in 1..n
  /\ CompactionOutputReserve(n) \in 1..CompactionInputBudget(n) - 1 /\ CompactionInputBudget(n) <= n
  /\ \A kind \in {"pressure", "provider", "local"} : Allowance(n, kind) \in 0..n - 1
=============================================================================
