------------------------------ MODULE CoreProofs ------------------------------
(* Parts of src/uthcode/core: what the budget of context.py promises for every *)
(* input limit; that the token of provider.py loses no wake-up, however many    *)
(* threads cancel it and however many readers wait for it; that compaction      *)
(* keeps a Timeline that covers every Turn once, and says truly what it did;    *)
(* and that a request fits the limits by a count of its own messages.           *)
EXTENDS ContextRequest, Cancellation, CompactionProperties, SequenceLemmas

----------------------------------------------------------------------------
(* The budget of a request.                                                    *)
\* Whatever the input limit (3 or more, as __post_init__ demands), High and Low
\* Water, the headroom, the compaction budgets and the allowances fit below one
\* another: no limit a user or a Provider states makes a budget impossible.
THEOREM EveryLimitHasABudget ==
  ASSUME NEW n \in Nat, n >= 3
  PROVE BudgetIsOrdered(n)
<1>1. CASE n = DefaultInputLimit
  <2>1. n = 256000 /\ WorkingHeadroom(n) = 48000 /\ RetainedTarget(n) = 96000
    BY <1>1, SMTT(60) DEF DefaultInputLimit, WorkingHeadroom, RetainedTarget
  <2>2. AutoGateLimit(n) = 208000
    BY <2>1, SMTT(60) DEF AutoGateLimit
  <2>3. FineTimelineBudget(n) \in 1..n
    BY <2>1, SMTT(60) DEF FineTimelineBudget, Lesser, Greater
  <2>4. CompactionInputBudget(n) = 64000
    BY <2>1, SMTT(60) DEF CompactionInputBudget, Lesser, Greater
  <2>5. CompactionOutputReserve(n) = 4096
    BY <1>1, SMTT(60) DEF CompactionOutputReserve
  <2>6. ASSUME NEW kind \in {"pressure", "provider", "local"}
        PROVE  Allowance(n, kind) \in 0..n - 1
    <3>1. SafetyAllowanceFor(n, kind) \in {4096, 2048, 8192}
      <4>1. n \div 50 = 5120 /\ n \div 100 = 2560 /\ n \div 20 = 12800
        BY <2>1, SMTT(60)
      <4>2. QED
        BY <2>1, <4>1, SMTT(60) DEF SafetyAllowanceFor, Uncertainty, Lesser, Greater
    <3>2. DefaultInputLimit = 256000
      BY SMTT(60) DEF DefaultInputLimit
    <3>3. Allowance(n, kind) = 8192
      BY <2>1, <3>1, <3>2, SMTT(60) DEF Allowance, Greater
    <3>4. 8192 \in 0..n - 1
      BY <2>1, SMTT(60)
    <3>5. QED
      BY <3>3, <3>4, SMTT(60)
  <2>7. CompactionOutputReserve(n) \in 1..CompactionInputBudget(n) - 1
    BY <2>4, <2>5, SMTT(60)
  <2>8. /\ 0 < WorkingHeadroom(n) /\ 0 < RetainedTarget(n) /\ RetainedTarget(n) < AutoGateLimit(n)
        /\ AutoGateLimit(n) < n /\ CompactionInputBudget(n) <= n
    BY <2>1, <2>2, <2>4, SMTT(60)
  <2> QED BY <2>3, <2>6, <2>7, <2>8, SMTT(60) DEF BudgetIsOrdered
<1>2. CASE n # DefaultInputLimit
  <2>1. WorkingHeadroom(n) \in 1..n - 2
    BY <1>2, SMTT(60) DEF WorkingHeadroom, Lesser, Greater
  <2>2. AutoGateLimit(n) \in 2..n - 1
    BY <2>1, SMTT(60) DEF AutoGateLimit
  <2>3. FineTimelineBudget(n) \in 1..n
    BY SMTT(60) DEF FineTimelineBudget, Lesser, Greater
  <2>4. RetainedTarget(n) \in 1..AutoGateLimit(n) - 1
    BY <1>2, <2>2, <2>3, SMTT(60) DEF RetainedTarget, Lesser, Greater
  <2>5. CompactionInputBudget(n) \in 3..n
    BY SMTT(60) DEF CompactionInputBudget, Lesser, Greater
  <2>6. CompactionOutputReserve(n) \in 1..CompactionInputBudget(n) - 1
    BY <1>2, <2>5, SMTT(60) DEF CompactionOutputReserve, Lesser, Greater
  <2>7. \A kind \in {"pressure", "provider", "local"} : Allowance(n, kind) \in 0..n - 1
    BY <1>2, SMTT(60) DEF Allowance, SafetyAllowanceFor, Uncertainty, Lesser, Greater
  <2> QED BY <2>1, <2>2, <2>3, <2>4, <2>5, <2>6, <2>7, SMTT(60) DEF BudgetIsOrdered
<1> QED BY <1>1, <1>2

\* A request that is under the Auto Gate by its local estimate also passes the
\* Hard Gate by that estimate: compaction gets its chance before a request is
\* refused for its input, never only after.
THEOREM PressureComesFirst ==
  ASSUME NEW n \in Nat, n >= 3, NEW tokens \in Nat,
         tokens + Allowance(n, "pressure") <= AutoGateLimit(n)
  PROVE tokens + Allowance(n, "local") <= n
<1>1. Allowance(n, "local") <= Allowance(n, "pressure") + WorkingHeadroom(n)
  <2>1. CASE n = DefaultInputLimit
    BY <2>1, SMTT(60) DEF DefaultInputLimit, Allowance, SafetyAllowanceFor, Uncertainty, WorkingHeadroom, Lesser, Greater
  <2>2. CASE n # DefaultInputLimit
    BY <2>2, SMTT(60) DEF Allowance, SafetyAllowanceFor, Uncertainty, WorkingHeadroom, Lesser, Greater
  <2> QED BY <2>1, <2>2
<1>2. /\ Allowance(n, "local") \in Int /\ Allowance(n, "pressure") \in Int /\ WorkingHeadroom(n) \in Int
  BY SMTT(60) DEF Allowance, SafetyAllowanceFor, Uncertainty, WorkingHeadroom, DefaultInputLimit, Lesser, Greater
<1> QED BY <1>1, <1>2, SMTT(60) DEF AutoGateLimit

----------------------------------------------------------------------------
(* The token of a Turn.                                                        *)
TokenTypeOK ==
  /\ flag \in BOOLEAN
  /\ waiters \in SUBSET Readers
  /\ calls \in SUBSET Readers
  /\ value \in SUBSET Readers
  /\ cancelPc \in [Cancellers -> {"start", "notify", "done"}]
  /\ notified \in [Cancellers -> SUBSET Readers]
  /\ readPc \in [Readers -> {"idle", "check", "register", "waiting", "woken", "stopped"}]

\* Nobody notifies or has returned before the flag is set.
FlagComesFirst == ~flag => \A c \in Cancellers : cancelPc[c] = "start"

\* A sleeping reader is among the waiters as long as the flag is not set, and
\* after that on the list of a canceller or in the event loop.
SleepersAreListed ==
  \A r \in Readers : readPc[r] = "waiting" =>
    IF flag THEN r \in calls \/ \E c \in Cancellers : cancelPc[c] = "notify" /\ r \in notified[c]
            ELSE r \in waiters

TokenInvariant == TokenTypeOK /\ FlagComesFirst /\ SleepersAreListed

----------------------------------------------------------------------------
LEMMA TokenInitial == TokenInit => TokenInvariant
BY DEF TokenInit, TokenInvariant, TokenTypeOK, FlagComesFirst, SleepersAreListed

\* Only two steps endanger a sleeper: setting the flag copies the waiters, and
\* a notification moves one of them to the event loop; a reader that falls asleep
\* has seen the flag unset when it was registered.
LEMMA TokenStep == TokenInvariant /\ [TokenNext]_tokenVars => TokenInvariant'
<1> SUFFICES ASSUME TokenInvariant, [TokenNext]_tokenVars
             PROVE  TokenInvariant'
  OBVIOUS
<1> USE DEF TokenInvariant, TokenTypeOK, FlagComesFirst, SleepersAreListed
<1>1. ASSUME NEW c \in Cancellers, SetFlag(c)
      PROVE  TokenInvariant'
  <2>1. CASE flag
    BY <1>1, <2>1 DEF SetFlag
  <2>2. CASE ~flag
    BY <1>1, <2>2 DEF SetFlag
  <2> QED BY <2>1, <2>2
<1>2. ASSUME NEW c \in Cancellers, Notify(c)
      PROVE  TokenInvariant'
  <2>1. CASE notified[c] = {} /\ cancelPc' = [cancelPc EXCEPT ![c] = "done"] /\ UNCHANGED <<notified, calls>>
    BY <1>2, <2>1 DEF Notify
  <2>2. ASSUME NEW r \in notified[c], notified' = [notified EXCEPT ![c] = @ \ {r}],
               calls' = calls \cup {r}, UNCHANGED cancelPc
        PROVE  TokenInvariant'
    BY <1>2, <2>2 DEF Notify
  <2> QED BY <1>2, <2>1, <2>2 DEF Notify
<1>3. ASSUME NEW r \in Readers, StartRead(r)
      PROVE  TokenInvariant'
  BY <1>3 DEF StartRead, Reading
<1>4. ASSUME NEW r \in Readers, CheckFlag(r)
      PROVE  TokenInvariant'
  BY <1>4 DEF CheckFlag, Reading
<1>5. ASSUME NEW r \in Readers, Register(r)
      PROVE  TokenInvariant'
  BY <1>5 DEF Register, Reading
<1>6. ASSUME NEW r \in Readers, ResolveWaiter(r)
      PROVE  TokenInvariant'
  BY <1>6 DEF ResolveWaiter
<1>7. ASSUME NEW r \in Readers, FrameArrives(r)
      PROVE  TokenInvariant'
  BY <1>7 DEF FrameArrives
<1>8. ASSUME NEW r \in Readers, Resume(r)
      PROVE  TokenInvariant'
  BY <1>8 DEF Resume, Reading
<1>9. CASE UNCHANGED tokenVars
  BY <1>9 DEF tokenVars
<1> QED BY <1>1, <1>2, <1>3, <1>4, <1>5, <1>6, <1>7, <1>8, <1>9 DEF TokenNext

----------------------------------------------------------------------------
\* Once every cancel() that has begun has returned, each reader that sleeps is
\* about to be woken (core/provider.py 1250), for any set of threads and readers.
THEOREM NoWakeUpIsLost == TokenSpec => []NobodySleeps
<1>1. TokenInvariant => NobodySleeps
  BY DEF TokenInvariant, TokenTypeOK, FlagComesFirst, SleepersAreListed, NobodySleeps
<1> QED BY <1>1, TokenInitial, TokenStep, PTL DEF TokenSpec

----------------------------------------------------------------------------
(* Compaction.                                                                 *)
Records == [kind : {"fine", "macro", "checkpoint"}, cover : SUBSET Nat, tx : Nat]

\* A log: a transaction begins where its name says, its records follow one
\* another, and nothing follows its checkpoint.
IsTimeline(tl) ==
  /\ tl \in Seq(Records)
  /\ \A i \in 1 .. Len(tl) :
       /\ tl[i].tx \in 1 .. i
       /\ \A k \in tl[i].tx .. i : tl[k].tx = tl[i].tx /\ (tl[k].kind = "checkpoint" => k = i)
       /\ tl[i].kind = "fine" => \E u \in tl[i].cover : tl[i].cover = {u}

\* What is derived speaks of the units 1 .. c, and one logical record of each.
Covers(tl, c) ==
  /\ c \in Nat
  /\ \A i \in Derived(tl) : tl[i].cover \subseteq 1 .. c
  /\ \A u \in 1 .. c : \E i \in Logical(tl) :
       u \in tl[i].cover /\ \A j \in Logical(tl) : u \in tl[j].cover => j = i

Phases == {"idle", "limits", "planning", "summarize", "validate", "continue", "committing", "ending"}
Working == {"planning", "summarize", "validate", "continue", "committing"}
Failures == {"none", "cancelled", "epoch_limit", "no_safe_epoch", "repeated_failure", "no_reduction",
             "commit_failed", "append_failed", "durability_unknown"}
Jobs == [phase : Phases, trigger : {"none", "manual", "image"} \cup Automatic, owns : BOOLEAN,
         timeline : Seq(Records), plan : SUBSET Nat, epoch : Nat, attempt : Nat, success : BOOLEAN,
         failure : Failures, start : Nat, rival : BOOLEAN]
States == {"idle", "running", "completed", "no_change", "cancelled", "failed"}

CompactionTypes ==
  /\ TypeOK /\ (turn # NoTurn => units < MaxUnits)
  /\ job \in Jobs /\ status \in [state : States, changed : BOOLEAN]
  /\ token \in BOOLEAN /\ lock \in BOOLEAN /\ partial \in BOOLEAN
  /\ active \in {"owner", "other", "none"}

\* The file is a log that covers complete units, and who has it open knows it.
FileIsTiled ==
  /\ IsTimeline(file) /\ Covers(file, CoveredEnd(file)) /\ CoveredEnd(file) <= units
  /\ writer = "open" => view = file

\* A pass works on the file as it is, with a plan made of it; and while it owns
\* the Session, the Session is open.
PassIsCurrent ==
  /\ job.phase \in Working => job.timeline = file
  /\ job.phase \in {"summarize", "validate", "committing"} => job.plan \in Plans
  /\ job.phase # "idle" /\ job.owns => writer = "open" /\ active = "owner"

Grew == CoveredEnd(file) > job.start

\* What a pass has noted is what it has done, until it becomes public.
NotesAreTrue ==
  /\ job.phase \in {"idle", "limits"} => status.state # "running"
  /\ job.owns =>
       /\ job.phase = "limits" => job.start = CoveredEnd(file)
       /\ job.phase \in Working => job.start <= CoveredEnd(file) /\ job.failure # "durability_unknown"
       /\ job.trigger # "aging" /\ job.failure # "durability_unknown" =>
            /\ job.phase \in Working \cup {"ending"} => (job.success <=> Grew) /\ (job.rival \/ (partial <=> Grew))
            /\ job.phase = "idle" /\ status.state # "idle" /\ job.trigger # "none" /\ ~ job.rival =>
                 (status.changed <=> Grew)

CompactionInvariant == CompactionTypes /\ FileIsTiled /\ PassIsCurrent /\ NotesAreTrue

----------------------------------------------------------------------------
\* Within a log the records of a transaction are those of its name.
LEMMA GroupsByName ==
  ASSUME NEW tl, IsTimeline(tl), NEW i \in 1 .. Len(tl), NEW j \in i .. Len(tl)
  PROVE  SameGroup(tl, i, j) <=> tl[i].tx = tl[j].tx
<1>1. /\ Len(tl) \in Nat /\ j \in 1 .. Len(tl) /\ j \in i .. j
      /\ tl[i].tx \in 1 .. i
      /\ \A k \in tl[j].tx .. j : tl[k].tx = tl[j].tx /\ (tl[k].kind = "checkpoint" => k = j)
  BY DEF IsTimeline
<1>2. ASSUME SameGroup(tl, i, j) PROVE tl[i].tx = tl[j].tx
  BY <1>1, <1>2 DEF SameGroup
<1>3. ASSUME tl[i].tx = tl[j].tx PROVE SameGroup(tl, i, j)
  <2>1. \A k \in i .. j : k \in tl[j].tx .. j
    BY <1>1, <1>3
  <2>2. QED
    BY <1>1, <1>3, <2>1 DEF SameGroup
<1>4. QED
  BY <1>2, <1>3

\* Record i is followed by the checkpoint of its transaction.
IsSealed(tl, i) == \E j \in i .. Len(tl) : tl[j].kind = "checkpoint" /\ tl[j].tx = tl[i].tx

LEMMA CommittedAreSealed ==
  ASSUME NEW tl, IsTimeline(tl), NEW i
  PROVE  i \in Committed(tl) <=> i \in 1 .. Len(tl) /\ IsSealed(tl, i)
<1>1. DOMAIN tl = 1 .. Len(tl)
  BY DEF IsTimeline
<1>2. CASE i \in 1 .. Len(tl)
  <2>1. \A j \in i .. Len(tl) : SameGroup(tl, i, j) <=> tl[i].tx = tl[j].tx
    BY <1>2, GroupsByName
  <2>2. QED
    BY <1>1, <1>2, <2>1 DEF Committed, IsSealed
<1>3. CASE i \notin 1 .. Len(tl)
  BY <1>1, <1>3 DEF Committed
<1>4. QED
  BY <1>2, <1>3

\* A log with some first records of one more transaction behind it.
Extends(new, tl) ==
  /\ new \in Seq(Records) /\ Len(tl) <= Len(new)
  /\ \A i \in 1 .. Len(tl) : new[i] = tl[i]
  /\ \A i \in Len(tl) + 1 .. Len(new) :
       /\ new[i].tx = Len(tl) + 1
       /\ new[i].kind = "checkpoint" => i = Len(new)
       /\ new[i].kind = "fine" => \E u \in new[i].cover : new[i].cover = {u}

LEMMA ExtendedIsTimeline ==
  ASSUME NEW tl, IsTimeline(tl), NEW new, Extends(new, tl)
  PROVE  IsTimeline(new)
<1>1. Len(tl) \in Nat /\ Len(new) \in Nat /\ Len(tl) <= Len(new)
  BY DEF IsTimeline, Extends
<1>2. ASSUME NEW i \in 1 .. Len(tl)
      PROVE  /\ new[i].tx \in 1 .. i
             /\ \A k \in new[i].tx .. i : new[k].tx = new[i].tx /\ (new[k].kind = "checkpoint" => k = i)
             /\ new[i].kind = "fine" => \E u \in new[i].cover : new[i].cover = {u}
  <2>1. /\ tl[i].tx \in 1 .. i
        /\ \A k \in tl[i].tx .. i : tl[k].tx = tl[i].tx /\ (tl[k].kind = "checkpoint" => k = i)
        /\ tl[i].kind = "fine" => \E u \in tl[i].cover : tl[i].cover = {u}
    BY DEF IsTimeline
  <2>2. new[i] = tl[i]
    BY DEF Extends
  <2>3. \A k \in tl[i].tx .. i : k \in 1 .. Len(tl)
    BY <1>1, <2>1
  <2>4. \A k \in tl[i].tx .. i : new[k] = tl[k]
    BY <2>3 DEF Extends
  <2>5. QED
    BY <2>1, <2>2, <2>4
<1>3. ASSUME NEW i \in Len(tl) + 1 .. Len(new)
      PROVE  /\ new[i].tx \in 1 .. i
             /\ \A k \in new[i].tx .. i : new[k].tx = new[i].tx /\ (new[k].kind = "checkpoint" => k = i)
             /\ new[i].kind = "fine" => \E u \in new[i].cover : new[i].cover = {u}
  <2>1. \A k \in Len(tl) + 1 .. i : k \in Len(tl) + 1 .. Len(new)
    BY <1>1
  <2>2. \A k \in Len(tl) + 1 .. i : new[k].tx = Len(tl) + 1 /\ (new[k].kind = "checkpoint" => k = Len(new))
    BY <2>1 DEF Extends
  <2>3. new[i].tx = Len(tl) + 1 /\ (new[i].kind = "fine" => \E u \in new[i].cover : new[i].cover = {u})
    BY DEF Extends
  <2>4. Len(tl) + 1 \in 1 .. i
    BY <1>1
  <2>5. \A k \in Len(tl) + 1 .. i : k = Len(new) => k = i
    BY <1>1
  <2>6. QED
    BY <2>2, <2>3, <2>4, <2>5
<1>4. \A i \in 1 .. Len(new) : i \in 1 .. Len(tl) \/ i \in Len(tl) + 1 .. Len(new)
  BY <1>1
<1>5. new \in Seq(Records)
  BY DEF Extends
<1>6. QED
  BY <1>2, <1>3, <1>4, <1>5 DEF IsTimeline

\* Whether an old record counts does not change; a new one counts when the last
\* is a checkpoint.
LEMMA ExtendedCommitted ==
  ASSUME NEW tl, IsTimeline(tl), NEW new, Extends(new, tl)
  PROVE  /\ \A i \in 1 .. Len(tl) : i \in Committed(new) <=> i \in Committed(tl)
         /\ \A i \in Len(tl) + 1 .. Len(new) : i \in Committed(new) <=> new[Len(new)].kind = "checkpoint"
<1>0. IsTimeline(new)
  BY ExtendedIsTimeline
<1>1. Len(tl) \in Nat /\ Len(new) \in Nat /\ Len(tl) <= Len(new)
  BY DEF IsTimeline, Extends
<1>2. ASSUME NEW i \in 1 .. Len(tl) PROVE IsSealed(new, i) <=> IsSealed(tl, i)
  <2>1. tl[i].tx \in 1 .. i /\ new[i] = tl[i]
    BY DEF IsTimeline, Extends
  <2>2. \A j \in i .. Len(new) : j \in i .. Len(tl) \/ j \in Len(tl) + 1 .. Len(new)
    BY <1>1
  <2>3. \A j \in Len(tl) + 1 .. Len(new) : new[j].tx # new[i].tx
    <3>1. \A j \in Len(tl) + 1 .. Len(new) : new[j].tx = Len(tl) + 1
      BY DEF Extends
    <3>2. tl[i].tx # Len(tl) + 1
      BY <1>1, <2>1
    <3>3. QED
      BY <2>1, <3>1, <3>2
  <2>4. \A j \in i .. Len(tl) : new[j] = tl[j] /\ j \in i .. Len(new)
    <3>1. \A j \in i .. Len(tl) : j \in 1 .. Len(tl) /\ j \in i .. Len(new)
      BY <1>1
    <3>2. QED
      BY <3>1 DEF Extends
  <2>5. QED
    BY <2>1, <2>2, <2>3, <2>4 DEF IsSealed
<1>3. ASSUME NEW i \in Len(tl) + 1 .. Len(new) PROVE IsSealed(new, i) <=> new[Len(new)].kind = "checkpoint"
  <2>1. Len(new) \in i .. Len(new) /\ \A j \in i .. Len(new) : j \in Len(tl) + 1 .. Len(new)
    BY <1>1
  <2>2. \A j \in i .. Len(new) : new[j].tx = Len(tl) + 1 /\ (new[j].kind = "checkpoint" => j = Len(new))
    BY <2>1 DEF Extends
  <2>3. new[i].tx = Len(tl) + 1
    BY DEF Extends
  <2>4. QED
    BY <2>1, <2>2, <2>3 DEF IsSealed
<1>4. \A i \in 1 .. Len(tl) : i \in 1 .. Len(new)
  BY <1>1
<1>5. \A i \in Len(tl) + 1 .. Len(new) : i \in 1 .. Len(new)
  BY <1>1
<1>6. QED
  BY <1>0, <1>2, <1>3, <1>4, <1>5, CommittedAreSealed

\* The same for derived records.
LEMMA ExtendedDerived ==
  ASSUME NEW tl, IsTimeline(tl), NEW new, Extends(new, tl)
  PROVE  /\ Derived(tl) \subseteq 1 .. Len(tl)
         /\ \A i \in 1 .. Len(tl) : i \in Derived(new) <=> i \in Derived(tl)
         /\ \A i : i \in Derived(new) /\ i \notin 1 .. Len(tl) =>
              i \in Len(tl) + 1 .. Len(new) /\ new[i].kind # "checkpoint" /\ new[Len(new)].kind = "checkpoint"
         /\ \A i \in Len(tl) + 1 .. Len(new) :
              new[Len(new)].kind = "checkpoint" /\ new[i].kind # "checkpoint" => i \in Derived(new)
<1>1. /\ \A i \in 1 .. Len(tl) : i \in Committed(new) <=> i \in Committed(tl)
      /\ \A i \in Len(tl) + 1 .. Len(new) : i \in Committed(new) <=> new[Len(new)].kind = "checkpoint"
  BY ExtendedCommitted
<1>2. \A i \in 1 .. Len(tl) : new[i] = tl[i]
  BY DEF Extends
<1>3. \A i : i \in Committed(tl) => i \in 1 .. Len(tl)
  BY CommittedAreSealed
<1>4. IsTimeline(new)
  BY ExtendedIsTimeline
<1>5. \A i : i \in Committed(new) => i \in 1 .. Len(new)
  BY <1>4, CommittedAreSealed
<1>6. \A i \in 1 .. Len(new) : i \in 1 .. Len(tl) \/ i \in Len(tl) + 1 .. Len(new)
  BY DEF Extends, IsTimeline
<1>7. QED
  BY <1>1, <1>2, <1>3, <1>5, <1>6 DEF Derived

\* Records without their checkpoint change nothing.
LEMMA TornCovers ==
  ASSUME NEW tl, IsTimeline(tl), NEW new, Extends(new, tl), NEW c, Covers(tl, c),
         Len(new) = Len(tl) \/ new[Len(new)].kind # "checkpoint"
  PROVE  Covers(new, c)
<1>1. \A i \in 1 .. Len(tl) : new[i] = tl[i]
  BY DEF Extends
<1>2. Derived(new) = Derived(tl) /\ Derived(tl) \subseteq 1 .. Len(tl)
  <2>1. /\ Derived(tl) \subseteq 1 .. Len(tl)
        /\ \A i \in 1 .. Len(tl) : i \in Derived(new) <=> i \in Derived(tl)
        /\ \A i : i \in Derived(new) /\ i \notin 1 .. Len(tl) =>
             i \in Len(tl) + 1 .. Len(new) /\ new[i].kind # "checkpoint" /\ new[Len(new)].kind = "checkpoint"
    BY ExtendedDerived
  <2>2. Len(new) = Len(tl) => \A i \in Len(tl) + 1 .. Len(new) : FALSE
    BY DEF IsTimeline
  <2>3. QED
    BY <2>1, <2>2
<1>3. Superseded(new) = Superseded(tl)
  BY <1>1, <1>2 DEF Superseded
<1>4. Logical(new) = Logical(tl) /\ Logical(tl) \subseteq 1 .. Len(tl)
  BY <1>1, <1>2, <1>3 DEF Logical
<1>5. QED
  BY <1>1, <1>2, <1>4 DEF Covers

LEMMA LogicalAreDerived == ASSUME NEW tl PROVE Logical(tl) \subseteq Derived(tl)
BY DEF Logical

\* The coverage ends where the last unit is.
LEMMA CoverageEnds ==
  ASSUME NEW tl, NEW c, Covers(tl, c)
  PROVE  CoveredEnd(tl) = c
<1> DEFINE S == {0} \cup UNION {tl[i].cover : i \in Derived(tl)}
<1>1. c \in Nat /\ \A i \in Derived(tl) : tl[i].cover \subseteq 1 .. c
  BY DEF Covers
<1>2. \A y \in S : y \in Nat /\ c >= y
  BY <1>1
<1>3. c \in S
  <2>1. CASE c = 0
    BY <2>1
  <2>2. CASE c # 0
    <3>1. c \in 1 .. c
      BY <1>1, <2>2
    <3>2. PICK i \in Logical(tl) : c \in tl[i].cover
      BY <3>1 DEF Covers
    <3>3. QED
      BY <3>2, LogicalAreDerived
  <2>3. QED
    BY <2>1, <2>2
<1> HIDE DEF S
<1> DEFINE last == CHOOSE x \in S : \A y \in S : x >= y
<1>4. last \in S /\ \A y \in S : last >= y
  BY <1>2, <1>3
<1> HIDE DEF last
<1>5. last \in Nat /\ last >= c /\ c >= last
  BY <1>2, <1>3, <1>4
<1>6. last = c
  BY <1>1, <1>5
<1>7. QED
  BY <1>6 DEF CoveredEnd, Max, S, last

\* Whether a unit is the only one's.
IsTold(tl, u) == \E i \in Logical(tl) :
                   u \in tl[i].cover /\ \A j \in Logical(tl) : u \in tl[j].cover => j = i

\* An epoch of new units, one fine record each.
LEMMA FineCovers ==
  ASSUME NEW tl, IsTimeline(tl), NEW c, Covers(tl, c), NEW new, Extends(new, tl), NEW k \in Nat, c < k,
         Len(new) = Len(tl) + (k - c) + 1, new[Len(new)].kind = "checkpoint",
         \A i \in 1 .. k - c : new[Len(tl) + i].kind = "fine" /\ new[Len(tl) + i].cover = {c + i}
  PROVE  Covers(new, k)
<1> DEFINE n == Len(tl)
<1>1. /\ n \in Nat /\ c \in Nat /\ Len(new) \in Nat
      /\ \A i \in 1 .. n : new[i] = tl[i]
  BY DEF IsTimeline, Covers, Extends
<1>2. \A i \in n + 1 .. n + (k - c) : new[i].kind = "fine" /\ new[i].cover = {c + (i - n)}
  <2>1. \A i \in n + 1 .. n + (k - c) : i - n \in 1 .. k - c /\ Len(tl) + (i - n) = i
    BY <1>1
  <2>2. QED
    BY <2>1
<1>3. /\ Derived(tl) \subseteq 1 .. n
      /\ \A i \in 1 .. n : i \in Derived(new) <=> i \in Derived(tl)
      /\ \A i : i \in Derived(new) /\ i \notin 1 .. n => i \in n + 1 .. n + (k - c)
      /\ \A i \in n + 1 .. n + (k - c) : i \in Derived(new)
  <2>1. /\ Derived(tl) \subseteq 1 .. Len(tl)
        /\ \A i \in 1 .. Len(tl) : i \in Derived(new) <=> i \in Derived(tl)
        /\ \A i : i \in Derived(new) /\ i \notin 1 .. Len(tl) =>
             i \in Len(tl) + 1 .. Len(new) /\ new[i].kind # "checkpoint"
        /\ \A i \in Len(tl) + 1 .. Len(new) : new[i].kind # "checkpoint" => i \in Derived(new)
    BY ExtendedDerived
  <2>2. \A i \in n + 1 .. Len(new) : i \in n + 1 .. n + (k - c) \/ i = Len(new)
    BY <1>1
  <2>3. \A i \in n + 1 .. n + (k - c) : i \in n + 1 .. Len(new)
    BY <1>1
  <2>4. \A i \in n + 1 .. n + (k - c) : new[i].kind # "checkpoint"
    BY <1>2
  <2>5. QED
    BY <2>1, <2>2, <2>3, <2>4
<1>4. \A i \in n + 1 .. n + (k - c) : i \notin 1 .. n
  BY <1>1
<1>5. Superseded(new) = Superseded(tl)
  <2> DEFINE M == {j \in Derived(tl) : tl[j].kind = "macro"}
  <2>1. {j \in Derived(new) : new[j].kind = "macro"} = M
    BY <1>1, <1>2, <1>3
  <2>2. \A i \in M : new[i] = tl[i]
    BY <1>1, <1>3
  <2>3. Superseded(tl) = UNION {tl[i].cover : i \in M} /\ Superseded(new) = UNION {new[i].cover : i \in M}
    BY <2>1 DEF Superseded
  <2> HIDE DEF M
  <2>4. {new[i].cover : i \in M} = {tl[i].cover : i \in M}
    BY <2>2
  <2>5. QED
    BY <2>3, <2>4
<1>6. Superseded(tl) \subseteq 1 .. c
  BY DEF Superseded, Covers
<1>7. \A i \in 1 .. n : i \in Logical(new) <=> i \in Logical(tl)
  BY <1>1, <1>3, <1>5 DEF Logical
<1>8. \A i \in n + 1 .. n + (k - c) : i \in Logical(new)
  <2>1. \A i \in n + 1 .. n + (k - c) : c + (i - n) \notin 1 .. c
    BY <1>1
  <2>2. QED
    BY <1>2, <1>3, <1>5, <1>6, <2>1 DEF Logical
<1>9. \A i \in Logical(new) : i \in 1 .. n \/ i \in n + 1 .. n + (k - c)
  BY <1>3, LogicalAreDerived
<1>10. Logical(tl) \subseteq 1 .. n
  BY <1>3, LogicalAreDerived
<1>11. \A i \in Derived(new) : new[i].cover \subseteq 1 .. k
  <2>1. \A i \in Derived(tl) : tl[i].cover \subseteq 1 .. c
    BY DEF Covers
  <2>2. \A u \in 1 .. c : u \in 1 .. k
    BY <1>1
  <2>3. \A i \in n + 1 .. n + (k - c) : c + (i - n) \in 1 .. k
    BY <1>1
  <2> HIDE DEF n
  <2>4. ASSUME NEW i \in Derived(new), i \in 1 .. n PROVE new[i].cover \subseteq 1 .. k
    <3>1. new[i] = tl[i] /\ i \in Derived(tl)
      BY <1>1, <1>3, <2>4
    <3>2. QED
      BY <2>1, <2>2, <3>1
  <2>5. ASSUME NEW i \in Derived(new), i \notin 1 .. n PROVE new[i].cover \subseteq 1 .. k
    <3>1. i \in n + 1 .. n + (k - c)
      BY <1>3, <2>5
    <3>2. QED
      BY <1>2, <2>3, <3>1
  <2>6. QED
    BY <2>4, <2>5
<1> HIDE DEF n
<1>12. ASSUME NEW u \in 1 .. k PROVE IsTold(new, u)
  <2>1. CASE u \in 1 .. c
    <3>1. PICK i \in Logical(tl) : u \in tl[i].cover /\ \A j \in Logical(tl) : u \in tl[j].cover => j = i
      BY <2>1 DEF Covers
    <3>2. i \in 1 .. n /\ i \in Logical(new) /\ u \in new[i].cover
      BY <1>1, <1>7, <1>10, <3>1
    <3>3. \A j \in n + 1 .. n + (k - c) : u # c + (j - n)
      BY <1>1, <2>1
    <3>4. ASSUME NEW j \in Logical(new), u \in new[j].cover PROVE j = i
      <4>1. CASE j \in 1 .. n
        <5>1. new[j] = tl[j] /\ j \in Logical(tl)
          BY <1>1, <1>7, <4>1
        <5>2. QED
          BY <3>1, <3>4, <5>1
      <4>2. CASE j \in n + 1 .. n + (k - c)
        <5>1. new[j].cover = {c + (j - n)}
          BY <1>2, <4>2
        <5>2. u # c + (j - n)
          BY <3>3, <4>2
        <5>3. QED
          BY <3>4, <5>1, <5>2
      <4>3. QED
        BY <1>9, <3>4, <4>1, <4>2
    <3>5. QED
      BY <3>2, <3>4 DEF IsTold
  <2>2. CASE u \in c + 1 .. k
    <3> DEFINE i == n + (u - c)
    <3>1. i \in n + 1 .. n + (k - c) /\ c + (i - n) = u
      BY <1>1, <2>2
    <3> HIDE DEF i
    <3>2. i \in Logical(new) /\ u \in new[i].cover
      BY <1>2, <1>8, <3>1
    <3>3. ASSUME NEW j \in Logical(new), u \in new[j].cover PROVE j = i
      <4>1. u \notin 1 .. c
        BY <1>1, <2>2
      <4>2. CASE j \in 1 .. n
        <5>1. j \in Derived(tl) /\ new[j] = tl[j]
          BY <1>1, <1>3, <3>3, <4>2, LogicalAreDerived
        <5>2. tl[j].cover \subseteq 1 .. c
          BY <5>1 DEF Covers
        <5>3. QED
          BY <3>3, <4>1, <5>1, <5>2
      <4>3. CASE j \in n + 1 .. n + (k - c)
        <5>1. u = c + (j - n)
          BY <1>2, <3>3, <4>3
        <5>2. QED
          BY <1>1, <3>1, <4>3, <5>1
      <4>4. QED
        BY <1>9, <3>3, <4>2, <4>3
    <3>4. QED
      BY <3>2, <3>3 DEF IsTold
  <2>3. u \in 1 .. c \/ u \in c + 1 .. k
    BY <1>1
  <2>4. QED
    BY <2>1, <2>2, <2>3
<1>13. QED
  BY <1>11, <1>12 DEF Covers, IsTold

\* A macro record in the place of active fine ones.
LEMMA MacroCovers ==
  ASSUME NEW tl, IsTimeline(tl), NEW c, Covers(tl, c), NEW new, Extends(new, tl),
         NEW g \in SUBSET ActiveFine(tl), NEW us, us = UNION {tl[i].cover : i \in g},
         Len(new) = Len(tl) + 2, new[Len(tl) + 2].kind = "checkpoint",
         new[Len(tl) + 1].kind = "macro", new[Len(tl) + 1].cover = us
  PROVE  Covers(new, c)
<1> DEFINE n == Len(tl)
           m == Len(tl) + 1
<1>1. /\ n \in Nat /\ c \in Nat /\ m \notin 1 .. n /\ m \in n + 1 .. n + 2
      /\ \A i \in n + 1 .. n + 2 : i = m \/ i = n + 2
  BY DEF IsTimeline, Covers
<1>2. \A i \in 1 .. n : new[i] = tl[i]
  BY DEF Extends
<1>3. /\ Derived(tl) \subseteq 1 .. n
      /\ \A i \in 1 .. n : i \in Derived(new) <=> i \in Derived(tl)
      /\ \A i : i \in Derived(new) /\ i \notin 1 .. n => i = m
      /\ m \in Derived(new)
  <2>1. /\ Derived(tl) \subseteq 1 .. Len(tl)
        /\ \A i \in 1 .. Len(tl) : i \in Derived(new) <=> i \in Derived(tl)
        /\ \A i : i \in Derived(new) /\ i \notin 1 .. Len(tl) =>
             i \in Len(tl) + 1 .. Len(new) /\ new[i].kind # "checkpoint"
        /\ \A i \in Len(tl) + 1 .. Len(new) : new[Len(new)].kind = "checkpoint" /\ new[i].kind # "checkpoint" => i \in Derived(new)
    BY ExtendedDerived
  <2>2. QED
    BY <1>1, <2>1
<1>4. new[m].kind = "macro" /\ new[m].cover = us
  OBVIOUS
<1> HIDE DEF n, m
<1>5. Superseded(new) = Superseded(tl) \cup us
  <2>1. {j \in Derived(new) : new[j].kind = "macro"} = {j \in Derived(tl) : tl[j].kind = "macro"} \cup {m}
    BY <1>2, <1>3, <1>4
  <2>2. QED
    BY <1>2, <1>3, <1>4, <2>1 DEF Superseded
<1>6. g \subseteq Logical(tl) /\ \A i \in g : tl[i].kind = "fine"
  BY DEF ActiveFine
<1>7. Logical(tl) \subseteq 1 .. n /\ m \in Logical(new) /\ \A i \in Logical(new) : i \in 1 .. n \/ i = m
  BY <1>3, <1>4 DEF Logical
<1>8. \A i \in 1 .. n : i \in Logical(new) <=>
        i \in Logical(tl) /\ (tl[i].kind = "macro" \/ tl[i].cover \cap us = {})
  BY <1>2, <1>3, <1>5 DEF Logical
<1>9. us \subseteq 1 .. c
  BY <1>6, LogicalAreDerived DEF Covers
<1>10. \A i \in Derived(new) : new[i].cover \subseteq 1 .. c
  BY <1>2, <1>3, <1>4, <1>9 DEF Covers
<1>11. ASSUME NEW u \in 1 .. c PROVE IsTold(new, u)
  <2>1. PICK i \in Logical(tl) : u \in tl[i].cover /\ \A j \in Logical(tl) : u \in tl[j].cover => j = i
    BY DEF Covers
  <2>2. CASE u \in us
    <3>1. PICK h \in g : u \in tl[h].cover
      BY <2>2
    <3>2. h = i /\ tl[i].kind = "fine"
      BY <1>6, <2>1, <3>1
    <3>3. i \notin Logical(new)
      BY <1>7, <1>8, <2>1, <2>2, <3>2
    <3>4. \A j \in Logical(new) : u \in new[j].cover => j = m
      BY <1>2, <1>7, <1>8, <2>1, <3>3
    <3>5. QED
      BY <1>4, <1>7, <2>2, <3>4 DEF IsTold
  <2>3. CASE u \notin us
    <3>1. i \in 1 .. n
      BY <1>7
    <3>2. tl[i].kind = "macro" \/ tl[i].cover \cap us = {}
      <4>1. tl[i].kind = "fine" => tl[i].cover = {u}
        BY <2>1, <3>1 DEF IsTimeline, n
      <4>2. tl[i].kind \in {"fine", "macro", "checkpoint"} /\ tl[i].kind # "checkpoint"
        <5>1. tl[i] \in Records
          BY <3>1 DEF IsTimeline, n
        <5>2. QED
          BY <2>1, <5>1 DEF Records, Logical, Derived
      <4>3. QED
        BY <2>3, <4>1, <4>2
    <3>3. i \in Logical(new) /\ u \in new[i].cover
      BY <1>2, <1>8, <2>1, <3>1, <3>2
    <3>4. \A j \in Logical(new) : u \in new[j].cover => j = i
      BY <1>2, <1>4, <1>7, <1>8, <2>1, <2>3
    <3>5. QED
      BY <3>3, <3>4 DEF IsTold
  <2>4. QED
    BY <2>2, <2>3
<1>12. QED
  BY <1>1, <1>10, <1>11 DEF Covers, IsTold

----------------------------------------------------------------------------
\* A part of what extends a log extends it; without the last record it has no
\* checkpoint.
LEMMA PartExtends ==
  ASSUME NEW tl, IsTimeline(tl), NEW new, Extends(new, tl), NEW n \in 0 .. Len(new) - Len(tl)
  PROVE  /\ Extends(SubSeq(new, 1, Len(tl) + n), tl)
         /\ Len(SubSeq(new, 1, Len(tl) + n)) = Len(tl) + n
         /\ n = Len(new) - Len(tl) => SubSeq(new, 1, Len(tl) + n) = new
         /\ n # 0 /\ n # Len(new) - Len(tl) => SubSeq(new, 1, Len(tl) + n)[Len(tl) + n].kind # "checkpoint"
<1> DEFINE part == SubSeq(new, 1, Len(tl) + n)
<1>1. /\ Len(tl) \in Nat /\ new \in Seq(Records) /\ Len(new) \in Nat /\ Len(tl) <= Len(new)
      /\ Len(tl) + n \in 0 .. Len(new)
  BY DEF IsTimeline, Extends
<1>2. /\ part \in Seq(Records) /\ Len(part) = Len(tl) + n
      /\ \A i \in 1 .. Len(tl) + n : part[i] = new[i]
      /\ n = Len(new) - Len(tl) => part = new
  BY <1>1
<1> HIDE DEF part
<1>3. \A i \in 1 .. Len(tl) : part[i] = tl[i]
  <2>1. \A i \in 1 .. Len(tl) : i \in 1 .. Len(tl) + n /\ new[i] = tl[i]
    BY <1>1 DEF Extends
  <2>2. QED
    BY <1>2, <2>1
<1>4. \A i \in Len(tl) + 1 .. Len(tl) + n :
        /\ part[i] = new[i] /\ new[i].tx = Len(tl) + 1
        /\ new[i].kind = "checkpoint" => i = Len(new)
        /\ new[i].kind = "fine" => \E u \in new[i].cover : new[i].cover = {u}
  <2>1. \A i \in Len(tl) + 1 .. Len(tl) + n : i \in 1 .. Len(tl) + n /\ i \in Len(tl) + 1 .. Len(new)
    BY <1>1
  <2>2. QED
    BY <1>2, <2>1 DEF Extends
<1>5. \A i \in Len(tl) + 1 .. Len(tl) + n : i = Len(new) => i = Len(tl) + n
  BY <1>1
<1>6. Extends(part, tl)
  <2>1. Len(tl) <= Len(part)
    BY <1>1, <1>2
  <2>2. \A i \in Len(tl) + 1 .. Len(part) :
          /\ part[i].tx = Len(tl) + 1
          /\ part[i].kind = "checkpoint" => i = Len(part)
          /\ part[i].kind = "fine" => \E u \in part[i].cover : part[i].cover = {u}
    BY <1>2, <1>4, <1>5
  <2>3. QED
    BY <1>2, <1>3, <2>1, <2>2 DEF Extends
<1>7. n # 0 /\ n # Len(new) - Len(tl) => part[Len(tl) + n].kind # "checkpoint"
  <2>1. n # 0 => Len(tl) + n \in Len(tl) + 1 .. Len(tl) + n
    BY <1>1
  <2>2. n # Len(new) - Len(tl) => Len(tl) + n # Len(new)
    BY <1>1
  <2>3. QED
    BY <1>4, <2>1, <2>2
<1>8. QED
  BY <1>2, <1>6, <1>7 DEF part

\* So what is written of it, in part or whole, is a log that covers as much.
LEMMA PartCovers ==
  ASSUME NEW tl, IsTimeline(tl), NEW c, Covers(tl, c), NEW new, Extends(new, tl),
         NEW n \in 0 .. Len(new) - Len(tl), SubSeq(new, 1, Len(tl) + n) # new
  PROVE  /\ IsTimeline(SubSeq(new, 1, Len(tl) + n))
         /\ Covers(SubSeq(new, 1, Len(tl) + n), c)
<1> DEFINE part == SubSeq(new, 1, Len(tl) + n)
<1>1. Extends(part, tl) /\ Len(part) = Len(tl) + n
  BY PartExtends
<1>2. Len(part) = Len(tl) \/ part[Len(part)].kind # "checkpoint"
  <2>1. n = 0 => Len(tl) + n = Len(tl)
    BY DEF IsTimeline
  <2>2. n # 0 => part[Len(tl) + n].kind # "checkpoint"
    BY PartExtends
  <2>3. QED
    BY <1>1, <2>1, <2>2
<1> HIDE DEF part
<1>3. IsTimeline(part) /\ Covers(part, c)
  BY <1>1, <1>2, ExtendedIsTimeline, TornCovers
<1>4. QED
  BY <1>3 DEF part

----------------------------------------------------------------------------
\* The records of a transaction, by their places.
LEMMA TransactionByPlace ==
  ASSUME NEW tl, IsTimeline(tl), NEW derived \in Seq([kind : {"fine", "macro"}, cover : SUBSET Nat])
  PROVE  /\ Transaction(tl, derived) \in Seq(Records)
         /\ Len(Transaction(tl, derived)) = Len(derived) + 1
         /\ \A i \in 1 .. Len(derived) :
              /\ Transaction(tl, derived)[i].kind = derived[i].kind
              /\ Transaction(tl, derived)[i].cover = derived[i].cover
              /\ Transaction(tl, derived)[i].tx = Len(tl) + 1
         /\ Transaction(tl, derived)[Len(derived) + 1].kind = "checkpoint"
         /\ Transaction(tl, derived)[Len(derived) + 1].tx = Len(tl) + 1
<1> DEFINE D == [kind : {"fine", "macro"}, cover : SUBSET Nat]
           us == UNION {derived[i].cover : i \in DOMAIN derived}
           records == Append(derived, Checkpoint(us))
           m == Len(derived)
           named == [i \in 1 .. m + 1 |-> [kind |-> records[i].kind, cover |-> records[i].cover, tx |-> Len(tl) + 1]]
<1>0. Len(tl) \in Nat
  BY DEF IsTimeline
<1>1. m \in Nat /\ Len(tl) \in Nat /\ DOMAIN derived = 1 .. m /\ \A i \in 1 .. m : derived[i] \in D
  <2>1. derived \in Seq(D)
    OBVIOUS
  <2> HIDE DEF D
  <2>2. QED
    BY <1>0, <2>1
<1>2. us \in SUBSET Nat
  BY <1>1
<1>3. Checkpoint(us).kind = "checkpoint" /\ Checkpoint(us).cover = us
  BY DEF Checkpoint
<1>4. DOMAIN records = 1 .. m + 1 /\ (\A i \in 1 .. m : records[i] = derived[i]) /\ records[m + 1] = Checkpoint(us)
  <2> HIDE DEF us
  <2>1. QED
    BY <1>1
<1>5. Transaction(tl, derived) = named
  <2>1. Transaction(tl, derived) = [i \in DOMAIN records |-> [kind |-> records[i].kind, cover |-> records[i].cover, tx |-> Len(tl) + 1]]
    BY DEF Transaction
  <2> HIDE DEF records
  <2>2. QED
    BY <1>4, <2>1
<1> HIDE DEF us, records
<1>6. \A i \in 1 .. m + 1 : i \in 1 .. m \/ i = m + 1
  BY <1>1
<1>7. \A i \in 1 .. m + 1 : records[i].kind \in {"fine", "macro", "checkpoint"} /\ records[i].cover \in SUBSET Nat
  BY <1>1, <1>2, <1>3, <1>4, <1>6
<1>8. \A i \in 1 .. m + 1 : named[i] \in Records
  BY <1>1, <1>7 DEF Records
<1>9. named \in Seq(Records) /\ Len(named) = m + 1
  <2>1. m + 1 \in Nat
    BY <1>1
  <2>2. named \in [1 .. m + 1 -> Records]
    BY <1>8
  <2> HIDE DEF named
  <2>3. QED
    BY <2>1, <2>2
<1>10. \A i \in 1 .. m : i \in 1 .. m + 1
  BY <1>1
<1>11. m + 1 \in 1 .. m + 1
  BY <1>1
<1>12. QED
  BY <1>1, <1>3, <1>4, <1>5, <1>9, <1>10, <1>11

\* A concatenation, by its places.
LEMMA ConcatByPlace ==
  ASSUME NEW S, NEW s \in Seq(S), NEW t \in Seq(S)
  PROVE  /\ s \o t \in Seq(S) /\ Len(s \o t) = Len(s) + Len(t)
         /\ \A i \in 1 .. Len(s) : (s \o t)[i] = s[i]
         /\ \A i \in 1 .. Len(t) : (s \o t)[Len(s) + i] = t[i]
OBVIOUS

\* A transaction behind a log extends it.
Appends(new, tl, derived) ==
  /\ Extends(new, tl)
  /\ Len(new) = Len(tl) + Len(derived) + 1
  /\ \A i \in 1 .. Len(derived) :
       new[Len(tl) + i].kind = derived[i].kind /\ new[Len(tl) + i].cover = derived[i].cover
  /\ new[Len(tl) + Len(derived) + 1].kind = "checkpoint"

LEMMA TransactionExtends ==
  ASSUME NEW tl, IsTimeline(tl), NEW derived \in Seq([kind : {"fine", "macro"}, cover : SUBSET Nat]),
         \A i \in 1 .. Len(derived) : derived[i].kind = "fine" => \E u \in derived[i].cover : derived[i].cover = {u}
  PROVE  Appends(tl \o Transaction(tl, derived), tl, derived)
<1> DEFINE t == Transaction(tl, derived)
           new == tl \o t
           n == Len(tl)
           m == Len(derived)
<1>1. /\ t \in Seq(Records) /\ Len(t) = m + 1
      /\ \A i \in 1 .. m : t[i].kind = derived[i].kind /\ t[i].cover = derived[i].cover /\ t[i].tx = n + 1
      /\ t[m + 1].kind = "checkpoint" /\ t[m + 1].tx = n + 1
  BY TransactionByPlace
<1>2. n \in Nat /\ m \in Nat /\ tl \in Seq(Records) /\ \A i \in 1 .. m : derived[i].kind # "checkpoint"
  <2>1. n \in Nat /\ tl \in Seq(Records)
    BY DEF IsTimeline
  <2> DEFINE D == [kind : {"fine", "macro"}, cover : SUBSET Nat]
  <2>2. derived \in Seq(D)
    OBVIOUS
  <2>3. \A d \in D : d.kind # "checkpoint"
    OBVIOUS
  <2> HIDE DEF D
  <2>4. m \in Nat /\ \A i \in 1 .. m : derived[i] \in D
    BY <2>2
  <2>5. QED
    BY <2>1, <2>3, <2>4
<1> HIDE DEF t
<1>3. /\ new \in Seq(Records) /\ Len(new) = n + m + 1
      /\ \A i \in 1 .. n : new[i] = tl[i]
      /\ \A i \in 1 .. m + 1 : new[n + i] = t[i]
  <2>1. t \in Seq(Records) /\ tl \in Seq(Records) /\ Len(t) = m + 1
    BY <1>1, <1>2
  <2>2. /\ new \in Seq(Records) /\ Len(new) = Len(tl) + Len(t)
        /\ \A i \in 1 .. Len(tl) : new[i] = tl[i]
        /\ \A i \in 1 .. Len(t) : new[Len(tl) + i] = t[i]
    <3>1. tl \o t \in Seq(Records) /\ Len(tl \o t) = Len(tl) + Len(t)
      BY <2>1, ConcatByPlace, ZenonT(60)
    <3>2. \A i \in 1 .. Len(tl) : (tl \o t)[i] = tl[i]
      BY <2>1, ConcatByPlace, SMTT(60)
    <3>3. \A i \in 1 .. Len(t) : (tl \o t)[Len(tl) + i] = t[i]
      BY <2>1, ConcatByPlace, SMTT(60)
    <3>4. QED
      BY <3>1, <3>2, <3>3
  <2> HIDE DEF m, new
  <2>3. QED
    BY <1>2, <2>1, <2>2
<1> HIDE DEF new, n, m
<1>4. \A i \in n + 1 .. n + m + 1 : i - n \in 1 .. m + 1 /\ n + (i - n) = i
  BY <1>2
<1>5. \A i \in 1 .. m + 1 : i \in 1 .. m \/ i = m + 1
  BY <1>2
<1>6. \A i \in 1 .. m + 1 :
        /\ t[i].tx = n + 1 /\ (t[i].kind = "checkpoint" => i = m + 1)
        /\ t[i].kind = "fine" => \E u \in t[i].cover : t[i].cover = {u}
  <2>2. \A i \in 1 .. m : derived[i].kind = "fine" => \E u \in derived[i].cover : derived[i].cover = {u}
    BY DEF m
  <2>3. QED
    BY <1>1, <1>2, <1>5, <2>2, ZenonT(60)
<1>7. \A i \in n + 1 .. n + m + 1 : i - n = m + 1 => i = n + m + 1
  BY <1>2
<1>8. Extends(new, tl)
  <2>1. Len(tl) <= Len(new)
    BY <1>2, <1>3 DEF n
  <2>2. \A i \in n + 1 .. n + m + 1 :
          /\ new[i].tx = n + 1 /\ (new[i].kind = "checkpoint" => i = n + m + 1)
          /\ new[i].kind = "fine" => \E u \in new[i].cover : new[i].cover = {u}
    BY <1>3, <1>4, <1>6, <1>7
  <2>3. QED
    BY <1>3, <2>1, <2>2 DEF Extends, n
<1>9. m + 1 \in 1 .. m + 1 /\ (\A i \in 1 .. m : i \in 1 .. m + 1) /\ n + (m + 1) = n + m + 1
  BY <1>2
<1>10. \A i \in 1 .. m : new[n + i].kind = derived[i].kind /\ new[n + i].cover = derived[i].cover
  BY <1>1, <1>3, <1>9
<1>11. new[n + m + 1].kind = "checkpoint"
  BY <1>1, <1>3, <1>9
<1>12. QED
  <2>1. Appends(new, tl, derived)
    BY <1>3, <1>8, <1>10, <1>11 DEF Appends, n, m
  <2>2. QED
    BY <2>1 DEF new, t

----------------------------------------------------------------------------
\* The fine records of an epoch, by their places.
LEMMA EpochByPlace ==
  ASSUME NEW c \in Nat, NEW k \in Nat, c < k
  PROVE  /\ EpochRecords(c + 1 .. k) \in Seq([kind : {"fine", "macro"}, cover : SUBSET Nat])
         /\ Len(EpochRecords(c + 1 .. k)) = k - c
         /\ \A i \in 1 .. k - c : EpochRecords(c + 1 .. k)[i] = Fine(c + i)
<1> DEFINE S == c + 1 .. k
           D == [kind : {"fine", "macro"}, cover : SUBSET Nat]
           records == [i \in 1 .. k - c |-> Fine(c + i)]
<1>1. Cardinality(S) = k - c
  BY FS_Interval
<1>2. Min(S) = c + 1
  <2>1. c + 1 \in S /\ \A y \in S : c + 1 <= y
    OBVIOUS
  <2>2. \A x, y \in S : x <= y /\ y <= x => x = y
    OBVIOUS
  <2> HIDE DEF S
  <2>3. QED
    BY <2>1, <2>2 DEF Min
<1>3. \A i \in 1 .. k - c : Fine(c + i) \in D
  BY DEF Fine
<1>4. EpochRecords(S) = records
  <2>1. \A i \in 1 .. k - c : (c + 1) + i - 1 = c + i
    OBVIOUS
  <2> HIDE DEF S
  <2>2. QED
    BY <1>1, <1>2, <2>1 DEF EpochRecords
<1>5. k - c \in Nat /\ records \in [1 .. k - c -> D]
  BY <1>3
<1> HIDE DEF D
<1>6. records \in Seq(D) /\ Len(records) = k - c
  BY <1>5
<1>7. QED
  BY <1>4, <1>6 DEF D

\* A candidate extends the file by one transaction, and covers more of it, or,
\* where records age, as much.
LEMMA CandidateCovers ==
  ASSUME CompactionTypes, FileIsTiled, job.timeline = file, job.plan \in Plans
  PROVE  /\ Extends(Candidate, file)
         /\ \E c \in CoveredEnd(file) .. units :
              Covers(Candidate, c) /\ (job.trigger # "aging" => CoveredEnd(file) < c)
<1> DEFINE c == CoveredEnd(file)
<1>1. IsTimeline(file) /\ Covers(file, c) /\ c \in Nat /\ units \in Nat /\ c <= units
  BY BoundAssumption DEF FileIsTiled, Covers, CompactionTypes, TypeOK
<1> HIDE DEF c
<1>2. CASE job.trigger = "aging"
  <2> DEFINE us == AgingEpoch(file)
  <2>1. job.plan = us /\ us # {}
    BY <1>2 DEF Plans
  <2>2. PICK g \in SUBSET ActiveFine(file) : us = UNION {file[i].cover : i \in g}
    BY <2>1 DEF AgingEpoch
  <2> HIDE DEF us
  <2>3. us \in SUBSET Nat
    <3>1. \A i \in Derived(file) : file[i].cover \subseteq 1 .. c
      BY <1>1 DEF Covers
    <3>2. g \subseteq Derived(file)
      BY LogicalAreDerived DEF ActiveFine
    <3>3. \A u \in us : u \in 1 .. c
      BY <2>2, <3>1, <3>2
    <3>4. QED
      BY <3>3
  <2> DEFINE derived == <<Macro(us)>>
  <2>4. derived \in Seq([kind : {"fine", "macro"}, cover : SUBSET Nat]) /\ Len(derived) = 1
        /\ derived[1].kind = "macro" /\ derived[1].cover = us
    BY <2>3 DEF Macro
  <2>5. Candidate = file \o Transaction(file, derived)
    BY <1>2, <2>1 DEF Candidate
  <2> HIDE DEF derived
  <2>6. \A i \in 1 .. Len(derived) : derived[i].kind = "fine" => \E u \in derived[i].cover : derived[i].cover = {u}
    BY <2>4
  <2> DEFINE new == file \o Transaction(file, derived)
  <2>7. Appends(new, file, derived)
    BY <1>1, <2>4, <2>6, TransactionExtends
  <2> HIDE DEF new
  <2>8. /\ Len(new) = Len(file) + 2 /\ new[Len(file) + 2].kind = "checkpoint"
        /\ new[Len(file) + 1].kind = "macro" /\ new[Len(file) + 1].cover = us
    <3>1. Len(file) \in Nat /\ 1 \in 1 .. 1
      BY <1>1 DEF IsTimeline
    <3>2. Len(file) + 1 + 1 = Len(file) + 2
      BY <3>1
    <3>3. QED
      BY <2>4, <2>7, <3>1, <3>2 DEF Appends
  <2>9. Covers(new, c)
    <3>1. Extends(new, file)
      BY <2>7 DEF Appends
    <3>2. QED
      BY <1>1, <2>2, <2>8, <3>1, MacroCovers
  <2>10. c \in c .. units
    BY <1>1
  <2>11. QED
    BY <1>2, <2>5, <2>7, <2>9, <2>10 DEF new, c, Appends
<1>3. CASE job.trigger # "aging"
  <2>1. PICK k \in c + 1 .. units : job.plan = c + 1 .. k
    BY <1>3 DEF Plans, Epochs, c
  <2>2. k \in Nat /\ c < k /\ k \in c .. units
    BY <1>1, <2>1
  <2> DEFINE derived == EpochRecords(c + 1 .. k)
  <2>3. /\ derived \in Seq([kind : {"fine", "macro"}, cover : SUBSET Nat])
        /\ Len(derived) = k - c
        /\ \A i \in 1 .. k - c : derived[i] = Fine(c + i)
    BY <1>1, <2>2, EpochByPlace
  <2>4. Candidate = file \o Transaction(file, derived)
    BY <1>3, <2>1 DEF Candidate
  <2> HIDE DEF derived
  <2>5. \A i \in 1 .. k - c : derived[i].kind = "fine" /\ derived[i].cover = {c + i}
    BY <2>3 DEF Fine
  <2>6. \A i \in 1 .. Len(derived) : derived[i].kind = "fine" => \E u \in derived[i].cover : derived[i].cover = {u}
    BY <2>3, <2>5
  <2> DEFINE new == file \o Transaction(file, derived)
  <2>7. Appends(new, file, derived)
    BY <1>1, <2>3, <2>6, TransactionExtends
  <2> HIDE DEF new
  <2>8. /\ Len(new) = Len(file) + (k - c) + 1 /\ new[Len(new)].kind = "checkpoint"
        /\ \A i \in 1 .. k - c : new[Len(file) + i].kind = "fine" /\ new[Len(file) + i].cover = {c + i}
    BY <2>3, <2>5, <2>7 DEF Appends
  <2>9. Covers(new, k)
    <3>1. Extends(new, file) /\ IsTimeline(file) /\ Covers(file, c)
      BY <1>1, <2>7 DEF Appends
    <3>2. k \in Nat /\ c < k
      BY <2>2
    <3>3. Len(new) = Len(file) + (k - c) + 1
      BY <2>8
    <3>4. new[Len(new)].kind = "checkpoint"
      BY <2>8
    <3>5. \A i \in 1 .. k - c : new[Len(file) + i].kind = "fine" /\ new[Len(file) + i].cover = {c + i}
      BY <2>8
    <3>6. QED
      BY <3>1, <3>2, <3>3, <3>4, <3>5, FineCovers
  <2>10. QED
    BY <2>2, <2>4, <2>7, <2>9 DEF new, c, Appends
<1>4. QED
  BY <1>2, <1>3

----------------------------------------------------------------------------
LEMMA CompactionInitial == Init => CompactionInvariant
<1> SUFFICES ASSUME Init PROVE CompactionInvariant
  OBVIOUS
<1>1. CompactionTypes
  <2>1. job \in Jobs
    <3>1. <<>> \in Seq(Records) /\ {} \in SUBSET Nat
      OBVIOUS
    <3>2. QED
      BY <3>1 DEF Init, Jobs, Idle, Phases, Failures
  <2>2. units \in 0 .. MaxUnits /\ faults \in 0 .. MaxFaults
    BY BoundAssumption DEF Init
  <2>3. TypeOK
    BY <2>2 DEF Init, TypeOK
  <2>4. status \in [state : States, changed : BOOLEAN]
    BY DEF Init, States
  <2>5. QED
    BY <2>1, <2>3, <2>4 DEF Init, CompactionTypes
<1>2. Covers(<<>>, 0)
  <2>1. Committed(<<>>) = {}
    BY DEF Committed
  <2>2. Derived(<<>>) = {}
    BY <2>1 DEF Derived
  <2>3. QED
    BY <2>2 DEF Covers
<1>3. CoveredEnd(<<>>) = 0
  BY <1>2, CoverageEnds
<1>4. FileIsTiled
  BY <1>2, <1>3 DEF Init, FileIsTiled, IsTimeline
<1>5. PassIsCurrent /\ NotesAreTrue
  BY DEF Init, Idle, PassIsCurrent, NotesAreTrue, Working
<1>6. QED
  BY <1>1, <1>4, <1>5 DEF CompactionInvariant

\* The file stays, and with it what is known of it.
LEMMA FileStays ==
  ASSUME FileIsTiled, CompactionTypes, file' = file, units' = units \/ units' = units + 1,
         writer' = "open" => view' = file
  PROVE  FileIsTiled'
<1>1. CoveredEnd(file) \in Nat /\ units \in Nat
  BY BoundAssumption DEF FileIsTiled, Covers, CompactionTypes, TypeOK
<1>2. CoveredEnd(file') <= units'
  BY <1>1 DEF FileIsTiled
<1>3. QED
  BY <1>2 DEF FileIsTiled

Notes == <<active, turn, token, lock, public>>

\* A pass goes on with the same file; its new plan, if it has one, is made of it.
LEMMA PassGoesOn ==
  ASSUME CompactionInvariant, job.phase \in Working, job'.phase \in Working, job' \in Jobs,
         UNCHANGED <<store, Notes>>,
         job'.timeline = job.timeline, job'.trigger = job.trigger, job'.owns = job.owns,
         job'.success = job.success, job'.failure = job.failure, job'.start = job.start, job'.rival = job.rival,
         job'.phase \in {"summarize", "validate", "committing"} => job'.plan \in Plans
  PROVE  CompactionInvariant'
<1>0. UNCHANGED <<units, file, view, writer, faults, active, turn, token, lock, status, partial>>
  BY DEF store, Notes, public
<1>1. CompactionTypes'
  BY <1>0 DEF CompactionInvariant, CompactionTypes, TypeOK
<1>2. FileIsTiled'
  BY <1>0, FileStays DEF CompactionInvariant, FileIsTiled
<1>3. PassIsCurrent'
  BY <1>0 DEF CompactionInvariant, PassIsCurrent, Plans, Working
<1>4. NotesAreTrue'
  BY <1>0 DEF CompactionInvariant, NotesAreTrue, Grew, Working
<1>5. QED
  BY <1>1, <1>2, <1>3, <1>4 DEF CompactionInvariant

\* A pass has come to its result.
LEMMA PassComes ==
  ASSUME CompactionInvariant, job.phase \in Working, NEW failure \in Failures, failure # "durability_unknown",
         job' = Ending(failure), UNCHANGED <<store, Notes>>
  PROVE  CompactionInvariant'
<1>0. UNCHANGED <<units, file, view, writer, faults, active, turn, token, lock, status, partial>>
  BY DEF store, Notes, public
<1>j. /\ job' \in Jobs /\ job'.phase = "ending" /\ job'.failure = failure
      /\ job'.trigger = job.trigger /\ job'.owns = job.owns /\ job'.success = job.success
      /\ job'.start = job.start /\ job'.rival = job.rival
  BY DEF CompactionInvariant, CompactionTypes, Jobs, Ending, Phases
<1>1. CompactionTypes'
  BY <1>0, <1>j DEF CompactionInvariant, CompactionTypes, TypeOK
<1>2. FileIsTiled'
  BY <1>0, FileStays DEF CompactionInvariant, FileIsTiled
<1>3. PassIsCurrent'
  BY <1>0, <1>j DEF CompactionInvariant, PassIsCurrent, Working
<1>4. NotesAreTrue'
  BY <1>0, <1>j DEF CompactionInvariant, NotesAreTrue, Grew, Working
<1>5. QED
  BY <1>1, <1>2, <1>3, <1>4 DEF CompactionInvariant

\* A pass becomes public, with what it may say of a change.
LEMMA PassFinishes ==
  ASSUME CompactionInvariant, NEW state \in States, NEW changed \in BOOLEAN, state # "running",
         Finished(state, changed),
         job.owns /\ job.trigger # "aging" /\ job.failure # "durability_unknown" /\ ~ job.rival =>
           (changed <=> Grew)
  PROVE  CompactionInvariant'
<1>0. /\ UNCHANGED <<units, file, view, writer, faults, active, turn, token, partial>>
      /\ lock' = FALSE /\ status' = [state |-> state, changed |-> changed]
  BY DEF Finished, Terminal, store
<1>j. /\ job' \in Jobs /\ job'.phase = "idle" /\ job'.failure = job.failure
      /\ job'.trigger = job.trigger /\ job'.owns = job.owns /\ job'.success = job.success
      /\ job'.start = job.start /\ job'.rival = job.rival
  <2>1. <<>> \in Seq(Records) /\ {} \in SUBSET Nat
    OBVIOUS
  <2>2. job \in Jobs
    BY DEF CompactionInvariant, CompactionTypes
  <2>3. job' = [job EXCEPT !.phase = "idle", !.timeline = <<>>, !.plan = {}, !.epoch = 0, !.attempt = 0]
    BY DEF Finished
  <2>4. QED
    BY <2>1, <2>2, <2>3 DEF Jobs, Phases
<1>1. CompactionTypes'
  BY <1>0, <1>j DEF CompactionInvariant, CompactionTypes, TypeOK, States
<1>2. FileIsTiled'
  BY <1>0, FileStays DEF CompactionInvariant, FileIsTiled
<1>3. PassIsCurrent'
  BY <1>0, <1>j DEF PassIsCurrent, Working
<1>4. NotesAreTrue'
  BY <1>0, <1>j DEF NotesAreTrue, Grew, Working
<1>5. QED
  BY <1>1, <1>2, <1>3, <1>4 DEF CompactionInvariant

----------------------------------------------------------------------------
LEMMA GrewIsKnown ==
  ASSUME CompactionInvariant, job.phase # "idle", job.owns, NEW otherGrew
  PROVE  CurrentGrew(otherGrew) = Grew
BY DEF CompactionInvariant, PassIsCurrent, CurrentGrew, Grew

LEMMA LimitsKnownStep == ASSUME CompactionInvariant, LimitsKnown PROVE CompactionInvariant'
<1>1. ASSUME ~ token, job.owns, Lifecycle(job.trigger), UNCHANGED <<store, active, turn, token>>,
             job.phase = "limits",
             job' = [NewJob(job.trigger, "planning") EXCEPT !.epoch = 1, !.start = job.start]
      PROVE  CompactionInvariant'
  <2>0. /\ UNCHANGED <<units, file, view, writer, faults, active, turn, token>>
        /\ lock' = TRUE /\ partial' = FALSE /\ status' = [state |-> "running", changed |-> FALSE]
    BY <1>1 DEF store, Lifecycle, Terminal
  <2>1. writer = "open" /\ active = "owner" /\ view = file /\ job.start = CoveredEnd(file)
        /\ file \in Seq(Records) /\ CoveredEnd(file) \in Nat
    BY <1>1 DEF CompactionInvariant, PassIsCurrent, FileIsTiled, NotesAreTrue, IsTimeline, Covers
  <2>j. /\ job' \in Jobs /\ job'.phase = "planning" /\ job'.timeline = file
        /\ job'.success = FALSE /\ job'.failure = "none" /\ job'.start = CoveredEnd(file)
    <3>0. job.trigger \in {"none", "manual", "image"} \cup Automatic
      BY DEF CompactionInvariant, CompactionTypes, Jobs
    <3>1. job' = [phase |-> "planning", trigger |-> job.trigger, owns |-> TRUE, timeline |-> view,
                  plan |-> {}, epoch |-> 1, attempt |-> 0, success |-> FALSE, failure |-> "none",
                  start |-> job.start, rival |-> FALSE]
      BY <1>1 DEF NewJob, Idle
    <3>2. job' \in Jobs
      BY <2>1, <3>0, <3>1 DEF Jobs, Phases, Failures
    <3>3. job'.phase = "planning" /\ job'.success = FALSE /\ job'.failure = "none"
      BY <1>1 DEF NewJob, Idle
    <3>4. job'.timeline = file /\ job'.start = CoveredEnd(file)
      BY <1>1, <2>1 DEF NewJob, Idle
    <3>5. QED
      BY <3>2, <3>3, <3>4
  <2>2. CompactionTypes'
    BY <2>0, <2>j DEF CompactionInvariant, CompactionTypes, TypeOK, States
  <2>3. FileIsTiled'
    BY <2>0, FileStays DEF CompactionInvariant, FileIsTiled
  <2>4. PassIsCurrent'
    BY <2>0, <2>1, <2>j DEF PassIsCurrent
  <2>5. NotesAreTrue'
    BY <2>0, <2>1, <2>j DEF NotesAreTrue, Grew, Working
  <2>6. QED
    BY <2>2, <2>3, <2>4, <2>5 DEF CompactionInvariant
<1>2. ASSUME job.phase = "limits", job' = Idle, UNCHANGED <<store, active, turn, token, lock, public>>
      PROVE  CompactionInvariant'
  <2>0. UNCHANGED <<units, file, view, writer, faults, active, turn, token, lock, status, partial>>
    BY <1>2 DEF store, public
  <2>j. job' \in Jobs /\ job'.phase = "idle" /\ job'.trigger = "none"
    BY <1>2 DEF Jobs, Idle, Phases, Failures, Records
  <2>2. CompactionTypes'
    BY <2>0, <2>j DEF CompactionInvariant, CompactionTypes, TypeOK
  <2>3. FileIsTiled'
    BY <2>0, FileStays DEF CompactionInvariant, FileIsTiled
  <2>4. PassIsCurrent' /\ NotesAreTrue'
    BY <1>2, <2>0, <2>j DEF CompactionInvariant, PassIsCurrent, NotesAreTrue, Working
  <2>6. QED
    BY <2>2, <2>3, <2>4 DEF CompactionInvariant
<1>3. ASSUME NEW otherGrew \in BOOLEAN, job.phase = "limits", Finished("cancelled", CurrentGrew(otherGrew))
      PROVE  CompactionInvariant'
  <2>1. CurrentGrew(otherGrew) \in BOOLEAN
    <3>1. CASE active = "other"
      BY <3>1 DEF CurrentGrew
    <3>2. CASE active # "other"
      BY <3>2 DEF CurrentGrew
    <3>3. QED
      BY <3>1, <3>2
  <2>2. job.owns => CurrentGrew(otherGrew) = Grew
    BY <1>3, GrewIsKnown
  <2>3. QED
    BY <1>3, <2>1, <2>2, PassFinishes DEF States
<1>4. QED
  BY <1>1, <1>2, <1>3 DEF LimitsKnown

LEMMA PlanEpochStep == ASSUME CompactionInvariant, PlanEpoch \/ PlanAging PROVE CompactionInvariant'
<1>0. job.phase = "planning" /\ job.phase \in Working /\ UNCHANGED <<store, Notes>> /\ job \in Jobs
  BY DEF PlanEpoch, PlanAging, Working, Notes, CompactionInvariant, CompactionTypes
<1>1. ASSUME NEW failure \in {"cancelled", "epoch_limit", "no_safe_epoch"}, job' = Ending(failure)
      PROVE  CompactionInvariant'
  BY <1>0, <1>1, PassComes DEF Failures
<1>2. ASSUME NEW us \in Plans, job' = [job EXCEPT !.phase = "summarize", !.plan = us, !.attempt = 1]
      PROVE  CompactionInvariant'
  <2>1. us \in SUBSET Nat
    <3>1. job.timeline = file
      BY <1>0 DEF CompactionInvariant, PassIsCurrent
    <3>2. CASE job.trigger = "aging"
      <4>1. PICK g \in SUBSET ActiveFine(file) : us = UNION {file[i].cover : i \in g}
        <5>1. us = AgingEpoch(file) /\ us # {}
          BY <3>1, <3>2 DEF Plans
        <5>2. QED
          BY <5>1 DEF AgingEpoch
      <4>2. \A i \in Derived(file) : file[i].cover \subseteq 1 .. CoveredEnd(file)
        BY DEF CompactionInvariant, FileIsTiled, Covers
      <4>3. g \subseteq Derived(file)
        BY LogicalAreDerived DEF ActiveFine
      <4>4. \A u \in us : u \in 1 .. CoveredEnd(file)
        BY <4>1, <4>2, <4>3
      <4>5. QED
        BY <4>4
    <3>3. CASE job.trigger # "aging"
      <4>1. CoveredEnd(file) \in Nat
        BY DEF CompactionInvariant, FileIsTiled, Covers
      <4>2. PICK k \in CoveredEnd(file) + 1 .. units : us = CoveredEnd(file) + 1 .. k
        BY <3>1, <3>3 DEF Plans, Epochs
      <4>3. QED
        BY <4>1, <4>2
    <3>4. QED
      BY <3>2, <3>3
  <2>2. /\ job' \in Jobs /\ job'.phase = "summarize" /\ job'.plan = us
        /\ job'.timeline = job.timeline /\ job'.trigger = job.trigger /\ job'.owns = job.owns
        /\ job'.success = job.success /\ job'.failure = job.failure /\ job'.start = job.start /\ job'.rival = job.rival
    BY <1>0, <1>2, <2>1 DEF Jobs, Phases
  <2>3. job'.phase \in Working
    BY <2>2 DEF Working
  <2>4. QED
    BY <1>0, <2>2, <2>3, PassGoesOn
<1>3. QED
  BY <1>1, <1>2 DEF PlanEpoch, PlanAging, Planned

LEMMA SummarisedStep ==
  ASSUME CompactionInvariant, NEW kind, Summarised(kind) PROVE CompactionInvariant'
<1>0. job.phase = "summarize" /\ job.phase \in Working /\ UNCHANGED <<store, Notes>> /\ job \in Jobs /\ job.plan \in Plans
  BY DEF Summarised, Working, Notes, CompactionInvariant, CompactionTypes, PassIsCurrent
<1>1. ASSUME job' = [job EXCEPT !.phase = "validate"] PROVE CompactionInvariant'
  <2>2. /\ job' \in Jobs /\ job'.phase = "validate" /\ job'.plan = job.plan
        /\ job'.timeline = job.timeline /\ job'.trigger = job.trigger /\ job'.owns = job.owns
        /\ job'.success = job.success /\ job'.failure = job.failure /\ job'.start = job.start /\ job'.rival = job.rival
    BY <1>0, <1>1 DEF Jobs, Phases
  <2>3. job'.phase \in Working
    BY <2>2 DEF Working
  <2>4. QED
    BY <1>0, <2>2, <2>3, PassGoesOn
<1>2. ASSUME job' = [job EXCEPT !.attempt = 2] PROVE CompactionInvariant'
  <2>2. /\ job' \in Jobs /\ job'.phase = "summarize" /\ job'.plan = job.plan
        /\ job'.timeline = job.timeline /\ job'.trigger = job.trigger /\ job'.owns = job.owns
        /\ job'.success = job.success /\ job'.failure = job.failure /\ job'.start = job.start /\ job'.rival = job.rival
    BY <1>0, <1>2 DEF Jobs, Phases
  <2>3. job'.phase \in Working
    BY <2>2 DEF Working
  <2>4. QED
    BY <1>0, <2>2, <2>3, PassGoesOn
<1>3. ASSUME job' = Ending("repeated_failure") PROVE CompactionInvariant'
  BY <1>0, <1>3, PassComes DEF Failures
<1>4. QED
  BY <1>1, <1>2, <1>3 DEF Summarised, Rejected

LEMMA SummaryCancelledStep == ASSUME CompactionInvariant, SummaryCancelled PROVE CompactionInvariant'
<1>1. job.phase \in Working /\ UNCHANGED <<store, Notes>> /\ job' = Ending("cancelled")
  BY DEF SummaryCancelled, Working, Notes
<1>2. QED
  BY <1>1, PassComes DEF Failures

LEMMA VerdictsStep ==
  ASSUME CompactionInvariant, NEW failures \in SUBSET {"cancelled", "commit_failed"}, Verdicts(failures)
  PROVE  CompactionInvariant'
<1>0. job.phase = "validate" /\ job.phase \in Working /\ UNCHANGED <<store, Notes>> /\ job \in Jobs /\ job.plan \in Plans
  BY DEF Verdicts, Working, Notes, CompactionInvariant, CompactionTypes, PassIsCurrent
<1>1. ASSUME NEW failure \in {"cancelled", "commit_failed", "no_reduction"}, job' = Ending(failure)
      PROVE  CompactionInvariant'
  BY <1>0, <1>1, PassComes DEF Failures
<1>2. ASSUME job' = [job EXCEPT !.phase = "committing"] PROVE CompactionInvariant'
  <2>2. /\ job' \in Jobs /\ job'.phase = "committing" /\ job'.plan = job.plan
        /\ job'.timeline = job.timeline /\ job'.trigger = job.trigger /\ job'.owns = job.owns
        /\ job'.success = job.success /\ job'.failure = job.failure /\ job'.start = job.start /\ job'.rival = job.rival
    BY <1>0, <1>2 DEF Jobs, Phases
  <2>3. job'.phase \in Working
    BY <2>2 DEF Working
  <2>4. QED
    BY <1>0, <2>2, <2>3, PassGoesOn
<1>3. QED
  BY <1>1, <1>2 DEF Verdicts

LEMMA DecidedStep == ASSUME CompactionInvariant, Decided PROVE CompactionInvariant'
<1>0. job.phase = "continue" /\ job.phase \in Working /\ UNCHANGED <<store, Notes>> /\ job \in Jobs
  BY DEF Decided, Working, Notes, CompactionInvariant, CompactionTypes
<1>1. ASSUME NEW failure \in {"cancelled", "none"}, job' = Ending(failure) PROVE CompactionInvariant'
  BY <1>0, <1>1, PassComes DEF Failures
<1>2. ASSUME job' = [job EXCEPT !.phase = "planning", !.epoch = @ + 1] PROVE CompactionInvariant'
  <2>1. job.epoch + 1 \in Nat
    BY <1>0 DEF Jobs
  <2>j. job' \in Jobs
    BY <1>0, <1>2, <2>1 DEF Jobs, Phases
  <2>2. /\ job' \in Jobs /\ job'.phase = "planning"
        /\ job'.timeline = job.timeline /\ job'.trigger = job.trigger /\ job'.owns = job.owns
        /\ job'.success = job.success /\ job'.failure = job.failure /\ job'.start = job.start /\ job'.rival = job.rival
    BY <1>0, <1>2, <2>j DEF Jobs
  <2>3. job'.phase \in Working
    BY <2>2 DEF Working
  <2>4. QED
    BY <1>0, <2>2, <2>3, PassGoesOn
<1>3. QED
  BY <1>1, <1>2 DEF Decided

LEMMA EndPassStep == ASSUME CompactionInvariant, EndPass PROVE CompactionInvariant'
<1> DEFINE state == StateOf(job.success, Surfaced(job.failure))
<1>1. state \in States /\ state # "running"
  BY DEF StateOf, States
<1>2. job.success \in BOOLEAN
  BY DEF CompactionInvariant, CompactionTypes, Jobs
<1>3. job.owns /\ job.trigger # "aging" /\ job.failure # "durability_unknown" => (job.success <=> Grew)
  BY DEF EndPass, CompactionInvariant, NotesAreTrue
<1>4. Finished(state, job.success)
  BY DEF EndPass
<1> HIDE DEF state
<1>5. QED
  BY <1>1, <1>2, <1>3, <1>4, PassFinishes

LEMMA PassRaisesStep == ASSUME CompactionInvariant, PassRaises PROVE CompactionInvariant'
<1>1. job.phase \in Working /\ Finished("failed", partial) /\ partial \in BOOLEAN
  BY DEF PassRaises, Working, CompactionInvariant, CompactionTypes
<1>2. job.owns /\ job.trigger # "aging" /\ job.failure # "durability_unknown" /\ ~ job.rival => (partial <=> Grew)
  BY <1>1 DEF CompactionInvariant, NotesAreTrue
<1>3. QED
  BY <1>1, <1>2, PassFinishes DEF States

LEMMA TaskCancelledStep == ASSUME CompactionInvariant, TaskCancelled PROVE CompactionInvariant'
<1>0. job.phase \in Working /\ partial \in BOOLEAN /\ job.phase # "idle"
  BY DEF TaskCancelled, Running, Working, CompactionInvariant, CompactionTypes
<1>1. ASSUME Finished("cancelled", partial) PROVE CompactionInvariant'
  <2>1. job.owns /\ job.trigger # "aging" /\ job.failure # "durability_unknown" /\ ~ job.rival => (partial <=> Grew)
    BY <1>0 DEF CompactionInvariant, NotesAreTrue
  <2>2. QED
    BY <1>0, <1>1, <2>1, PassFinishes DEF States
<1>2. ASSUME NEW otherGrew \in BOOLEAN, Finished("cancelled", CurrentGrew(otherGrew)) PROVE CompactionInvariant'
  <2>1. CurrentGrew(otherGrew) \in BOOLEAN
    <3>1. CASE active = "other"
      BY <3>1 DEF CurrentGrew
    <3>2. CASE active # "other"
      BY <3>2 DEF CurrentGrew
    <3>3. QED
      BY <3>1, <3>2
  <2>2. job.owns => CurrentGrew(otherGrew) = Grew
    BY <1>0, GrewIsKnown
  <2>3. QED
    BY <1>2, <2>1, <2>2, PassFinishes DEF States
<1>3. QED
  BY <1>1, <1>2 DEF TaskCancelled

----------------------------------------------------------------------------
LEMMA BeginManualStep == ASSUME CompactionInvariant, BeginManual PROVE CompactionInvariant'
<1>0. /\ UNCHANGED <<units, file, view, writer, faults, active, turn, lock, status, partial>>
      /\ token' = FALSE /\ job.phase = "idle" /\ active = "owner" /\ writer = "open"
  BY DEF BeginManual, store, public
<1>1. view = file /\ file \in Seq(Records) /\ CoveredEnd(file) \in Nat
  BY <1>0 DEF CompactionInvariant, FileIsTiled, IsTimeline, Covers
<1>2. PICK trigger \in {"manual", "image"} : job' = NewJob(trigger, "limits")
  BY DEF BeginManual
<1>j. /\ job' \in Jobs /\ job'.phase = "limits" /\ job'.timeline = file /\ job'.start = CoveredEnd(file)
  BY <1>1, <1>2 DEF Jobs, NewJob, Idle, Phases, Failures
<1>3. CompactionTypes'
  BY <1>0, <1>j DEF CompactionInvariant, CompactionTypes, TypeOK
<1>4. FileIsTiled'
  BY <1>0, FileStays DEF CompactionInvariant, FileIsTiled
<1>5. PassIsCurrent'
  BY <1>0, <1>j DEF PassIsCurrent, Working
<1>6. NotesAreTrue'
  BY <1>0, <1>j DEF CompactionInvariant, NotesAreTrue, Working
<1>7. QED
  BY <1>3, <1>4, <1>5, <1>6 DEF CompactionInvariant

LEMMA BeginAutomaticStep ==
  ASSUME CompactionInvariant, NEW trigger \in Automatic, BeginAutomatic(trigger) PROVE CompactionInvariant'
<1>0. /\ UNCHANGED <<units, file, view, writer, faults, active, token>>
      /\ lock' = TRUE /\ partial' = FALSE /\ status' = [state |-> "running", changed |-> FALSE]
      /\ job.phase = "idle" /\ active = "owner" /\ writer = "open"
      /\ turn # NoTurn /\ turn' = turn \cup {trigger}
  BY DEF BeginAutomatic, Lifecycle, Terminal, store
<1>1. view = file /\ file \in Seq(Records) /\ CoveredEnd(file) \in Nat
  BY <1>0 DEF CompactionInvariant, FileIsTiled, IsTimeline, Covers
<1>j. /\ job' \in Jobs /\ job'.phase = "planning" /\ job'.timeline = file /\ job'.start = CoveredEnd(file)
      /\ job'.success = FALSE /\ job'.failure = "none"
  <2>1. job' = [NewJob(trigger, "planning") EXCEPT !.epoch = 1]
    BY DEF BeginAutomatic
  <2>2. QED
    BY <1>1, <2>1 DEF Jobs, NewJob, Idle, Phases, Failures
<1>3. CompactionTypes'
  <2>1. turn' \subseteq Automatic
    BY <1>0 DEF CompactionInvariant, CompactionTypes, TypeOK
  <2>2. status' \in [state : States, changed : BOOLEAN]
    BY <1>0 DEF States
  <2>3. QED
    BY <1>0, <1>j, <2>1, <2>2 DEF CompactionInvariant, CompactionTypes, TypeOK
<1>4. FileIsTiled'
  BY <1>0, FileStays DEF CompactionInvariant, FileIsTiled
<1>5. PassIsCurrent'
  BY <1>0, <1>j DEF PassIsCurrent
<1>6. NotesAreTrue'
  BY <1>0, <1>1, <1>j DEF NotesAreTrue, Grew, Working
<1>7. QED
  BY <1>3, <1>4, <1>5, <1>6 DEF CompactionInvariant

LEMMA RivalStep == ASSUME CompactionInvariant, Rival PROVE CompactionInvariant'
<1>0. /\ UNCHANGED <<units, file, view, writer, faults, active, turn, token, lock, status>>
      /\ partial' = FALSE /\ job.phase \in Working
  BY DEF Rival, Running, Working, store
<1>j. /\ job' \in Jobs /\ job'.phase = job.phase /\ job'.timeline = job.timeline /\ job'.start = job.start
      /\ job'.success = job.success /\ job'.failure = job.failure /\ job'.trigger = job.trigger
      /\ job'.owns = job.owns /\ job'.rival = TRUE /\ job'.plan = job.plan
  BY DEF CompactionInvariant, CompactionTypes, Rival, Jobs
<1>3. CompactionTypes'
  BY <1>0, <1>j DEF CompactionInvariant, CompactionTypes, TypeOK
<1>4. FileIsTiled'
  BY <1>0, FileStays DEF CompactionInvariant, FileIsTiled
<1>5. PassIsCurrent'
  BY <1>0, <1>j DEF CompactionInvariant, PassIsCurrent, Plans
<1>6. NotesAreTrue'
  BY <1>0, <1>j DEF CompactionInvariant, NotesAreTrue, Grew, Working
<1>7. QED
  BY <1>3, <1>4, <1>5, <1>6 DEF CompactionInvariant

LEMMA OpenStep == ASSUME CompactionInvariant, Open PROVE CompactionInvariant'
<1>0. /\ UNCHANGED <<units, file, faults, turn, job, token, lock, status, partial>>
      /\ active # "owner" /\ active' = "owner" /\ writer' = "open" /\ view' = file
  BY DEF Open, public
<1>3. CompactionTypes'
  BY <1>0 DEF CompactionInvariant, CompactionTypes, TypeOK
<1>4. FileIsTiled'
  BY <1>0, FileStays DEF CompactionInvariant
<1>5. PassIsCurrent'
  BY <1>0 DEF CompactionInvariant, PassIsCurrent, Plans
<1>6. NotesAreTrue'
  BY <1>0 DEF CompactionInvariant, NotesAreTrue, Grew
<1>7. QED
  BY <1>3, <1>4, <1>5, <1>6 DEF CompactionInvariant

LEMMA NavigateStep == ASSUME CompactionInvariant, Navigate PROVE CompactionInvariant'
<1>0. /\ UNCHANGED <<units, file, view, faults, turn, token, lock, status, partial>>
      /\ active' = "other" /\ writer' = "closed" /\ job.phase # "idle"
  BY DEF Navigate, public
<1>j. /\ job' \in Jobs /\ job'.phase = job.phase /\ job'.timeline = job.timeline
      /\ job'.trigger = job.trigger /\ job'.owns = FALSE /\ job'.plan = job.plan
  BY DEF CompactionInvariant, CompactionTypes, Navigate, Jobs
<1>3. CompactionTypes'
  BY <1>0, <1>j DEF CompactionInvariant, CompactionTypes, TypeOK
<1>4. FileIsTiled'
  BY <1>0, FileStays DEF CompactionInvariant
<1>5. PassIsCurrent'
  BY <1>0, <1>j DEF CompactionInvariant, PassIsCurrent, Plans
<1>6. NotesAreTrue'
  BY <1>0, <1>j DEF CompactionInvariant, NotesAreTrue
<1>7. QED
  BY <1>3, <1>4, <1>5, <1>6 DEF CompactionInvariant

\* The token, a Turn that starts, and one that ends with a unit more.
LEMMA AroundStep ==
  ASSUME CompactionInvariant, Cancel \/ StartTurn \/ EndTurn PROVE CompactionInvariant'
<1>0. /\ UNCHANGED <<file, view, writer, faults, active, job, lock, status, partial>>
      /\ token' \in BOOLEAN
      /\ units' = units \/ (units' = units + 1 /\ job.phase = "idle")
  BY DEF Cancel, StartTurn, EndTurn, store, public, CompactionInvariant, CompactionTypes
<1>1. units' \in 0 .. MaxUnits /\ (turn' = NoTurn \/ turn' \subseteq Automatic) /\ (turn' # NoTurn => units' < MaxUnits)
  <2>1. /\ units \in 0 .. MaxUnits /\ (turn = NoTurn \/ turn \subseteq Automatic)
        /\ turn # NoTurn => units < MaxUnits
    BY DEF CompactionInvariant, CompactionTypes, TypeOK
  <2>2. CASE Cancel
    BY <2>1, <2>2 DEF Cancel, store
  <2>3. CASE StartTurn
    BY <2>1, <2>3 DEF StartTurn, store
  <2>4. CASE EndTurn
    BY <2>1, <2>4, BoundAssumption DEF EndTurn
  <2>5. QED
    BY <2>2, <2>3, <2>4
<1>3. CompactionTypes'
  BY <1>0, <1>1 DEF CompactionInvariant, CompactionTypes, TypeOK
<1>4. FileIsTiled'
  BY <1>0, FileStays DEF CompactionInvariant, FileIsTiled
<1>5. PassIsCurrent'
  BY <1>0 DEF CompactionInvariant, PassIsCurrent, Plans, Working
<1>6. NotesAreTrue'
  BY <1>0 DEF CompactionInvariant, NotesAreTrue, Grew
<1>7. QED
  BY <1>3, <1>4, <1>5, <1>6 DEF CompactionInvariant

----------------------------------------------------------------------------
\* The commit: the candidate is a log behind the file, and so is what of it is
\* written.
Covering(tl, c) == IsTimeline(tl) /\ Covers(tl, c)

LEMMA CandidateIsLog ==
  ASSUME CompactionInvariant, job.phase = "committing"
  PROVE  /\ \E c \in CoveredEnd(file) .. units :
              Covering(Candidate, c) /\ (job.trigger # "aging" => CoveredEnd(file) < c)
         /\ Len(file) \in Nat /\ Candidate \in Seq(Records)
         /\ \A n \in 0 .. Len(Candidate) - Len(file) :
              SubSeq(Candidate, 1, Len(file) + n) # Candidate =>
                Covering(SubSeq(Candidate, 1, Len(file) + n), CoveredEnd(file))
<1>1. job.timeline = file /\ job.plan \in Plans /\ CompactionTypes /\ FileIsTiled
  BY DEF CompactionInvariant, PassIsCurrent, Working
<1>2. IsTimeline(file) /\ Covers(file, CoveredEnd(file)) /\ Len(file) \in Nat
  BY <1>1 DEF FileIsTiled, IsTimeline
<1>3. Extends(Candidate, file)
  BY <1>1, CandidateCovers
<1>4. PICK c \in CoveredEnd(file) .. units : Covers(Candidate, c) /\ (job.trigger # "aging" => CoveredEnd(file) < c)
  BY <1>1, CandidateCovers
<1>5. IsTimeline(Candidate)
  BY <1>2, <1>3, ExtendedIsTimeline
<1>6. ASSUME NEW n \in 0 .. Len(Candidate) - Len(file), SubSeq(Candidate, 1, Len(file) + n) # Candidate
      PROVE  Covering(SubSeq(Candidate, 1, Len(file) + n), CoveredEnd(file))
  BY <1>2, <1>3, <1>6, PartCovers DEF Covering
<1>7. Candidate \in Seq(Records)
  BY <1>3 DEF Extends
<1>8. QED
  BY <1>2, <1>4, <1>5, <1>6, <1>7 DEF Covering

LEMMA CoveringEnds == ASSUME NEW tl, NEW c, Covering(tl, c) PROVE CoveredEnd(tl) = c /\ c \in Nat
BY CoverageEnds DEF Covering, Covers

\* Another file that covers at least as much and no unit too many.
LEMMA FileGrows ==
  ASSUME CompactionInvariant, NEW c \in CoveredEnd(file) .. units, Covering(file', c),
         units' = units, writer' = "open" => view' = file'
  PROVE  FileIsTiled' /\ CoveredEnd(file') = c /\ c \in Nat
<1>1. CoveredEnd(file') = c /\ c \in Nat
  BY CoveringEnds
<1>2. units \in Nat /\ CoveredEnd(file) \in Nat
  BY BoundAssumption DEF CompactionInvariant, CompactionTypes, TypeOK, FileIsTiled, Covers
<1>3. QED
  BY <1>1, <1>2 DEF FileIsTiled, Covering

LEMMA CommitRefusedStep == ASSUME CompactionInvariant, CommitRefused PROVE CompactionInvariant'
<1>1. partial \in BOOLEAN /\ partial' = (partial \/ (FALSE /\ job.trigger # "aging"))
  BY DEF CommitRefused, Committing, CompactionInvariant, CompactionTypes
<1>2. partial' = partial
  BY <1>1
<1>3. UNCHANGED <<store, Notes>> /\ job.phase \in Working /\ job' = Ending("commit_failed")
  BY <1>2 DEF CommitRefused, Committing, store, Notes, public, Working
<1>4. QED
  BY <1>3, PassComes DEF Failures

\* The candidate is the file, and the pass has succeeded.
LEMMA AcceptedStep ==
  ASSUME CompactionInvariant, Appending, file' = Candidate, view' = Candidate, writer' = "open", active' = active,
         Committing(Accepted, TRUE), faults' \in 0 .. MaxFaults
  PROVE  CompactionInvariant'
<1>0. /\ UNCHANGED <<units, turn, token, lock, status>> /\ active' = active /\ job' = Accepted
      /\ job.phase = "committing" /\ job.phase \in Working /\ job.owns /\ job \in Jobs
      /\ active = "owner"
  BY DEF Committing, Appending, Working, CompactionInvariant, CompactionTypes, PassIsCurrent
<1>1. PICK c \in CoveredEnd(file) .. units :
        Covering(Candidate, c) /\ (job.trigger # "aging" => CoveredEnd(file) < c)
  BY <1>0, CandidateIsLog
<1>2. FileIsTiled' /\ CoveredEnd(file') = c /\ c \in Nat
  BY <1>0, <1>1, FileGrows
<1>3. Candidate \in Seq(Records)
  BY <1>0, CandidateIsLog
<1>j. /\ job' \in Jobs /\ job'.phase \in {"ending", "continue"} /\ job'.success = TRUE
      /\ job'.trigger = job.trigger /\ job'.owns = job.owns /\ job'.start = job.start /\ job'.rival = job.rival
      /\ job'.failure \in {"none", "cancelled"} /\ (job'.phase = "continue" => job'.timeline = Candidate)
  <2>1. CASE job.trigger = "aging"
    <3>1. job' = [job EXCEPT !.phase = "ending", !.failure = "none", !.success = TRUE]
      BY <1>0, <2>1 DEF Accepted, Aged, Ending, Jobs
    <3>2. QED
      <4>1. job' \in Jobs
        BY <1>0, <3>1 DEF Jobs, Phases, Failures
      <4>2. job'.phase = "ending" /\ job'.success = TRUE /\ job'.failure = "none"
        BY <1>0, <3>1 DEF Jobs
      <4>3. /\ job'.trigger = job.trigger /\ job'.owns = job.owns
            /\ job'.start = job.start /\ job'.rival = job.rival
        BY <1>0, <3>1 DEF Jobs
      <4>4. QED
        BY <4>1, <4>2, <4>3
  <2>2. CASE job.trigger # "aging"
    <3> DEFINE failure == IF token THEN "cancelled" ELSE "none"
               after == IF token \/ job.trigger = "overflow" THEN "ending" ELSE "continue"
               timeline == Candidate
    <3>1. failure \in {"none", "cancelled"} /\ after \in {"ending", "continue"} /\ timeline \in Seq(Records)
      BY <1>3
    <3>2. job' = [job EXCEPT !.success = TRUE, !.timeline = timeline, !.failure = failure, !.phase = after]
      BY <1>0, <2>2 DEF Accepted, Aged
    <3>3. timeline = Candidate
      OBVIOUS
    <3> HIDE DEF failure, after, timeline
    <3>4. QED
      BY <1>0, <3>1, <3>2, <3>3, ZenonT(40) DEF Jobs, Phases, Failures
  <2>3. QED
    BY <2>1, <2>2
<1>4. partial' \in BOOLEAN /\ (job.trigger # "aging" => partial' = TRUE)
  <2>1. partial' = (partial \/ (TRUE /\ job.trigger # "aging"))
    BY DEF Committing
  <2>2. QED
    BY <2>1
<1>5. CompactionTypes'
  BY <1>0, <1>4, <1>j DEF CompactionInvariant, CompactionTypes, TypeOK
<1>6. PassIsCurrent'
  BY <1>0, <1>j DEF PassIsCurrent, Working
<1>7. CoveredEnd(file) \in Nat /\ job.start \in Nat /\ job.start <= CoveredEnd(file)
      /\ (job.trigger # "aging" => CoveredEnd(file) < c) /\ CoveredEnd(file) <= c
  BY <1>0, <1>1 DEF CompactionInvariant, FileIsTiled, Covers, NotesAreTrue, Jobs
<1>8. job'.start <= CoveredEnd(file') /\ (job.trigger # "aging" => job'.start < CoveredEnd(file'))
  BY <1>2, <1>7, <1>j
<1>9. NotesAreTrue'
  BY <1>0, <1>4, <1>8, <1>j DEF NotesAreTrue, Grew, Working
<1>10. QED
  BY <1>2, <1>5, <1>6, <1>9 DEF CompactionInvariant

LEMMA CommitDurableStep == ASSUME CompactionInvariant, CommitDurable PROVE CompactionInvariant'
<1>1. /\ Appending /\ file' = Candidate /\ view' = Candidate /\ writer' = "open" /\ active' = active
      /\ Committing(Accepted, TRUE) /\ faults' \in 0 .. MaxFaults
  BY DEF CommitDurable, Appending, CompactionInvariant, CompactionTypes, TypeOK
<1>2. QED
  BY <1>1, AcceptedStep

\* A commit that failed, whatever of the candidate is in the file.
LEMMA FailedStep ==
  ASSUME CompactionInvariant, Appending, NEW c \in CoveredEnd(file) .. units, Covering(file', c),
         NEW failure \in {"append_failed", "durability_unknown"}, NEW owns \in BOOLEAN,
         job' = [Ending(failure) EXCEPT !.owns = owns],
         partial' = partial, faults' \in 0 .. MaxFaults, UNCHANGED <<units, turn, token, lock, status>>,
         writer' \in {"open", "closed"}, active' \in {"owner", "other", "none"},
         writer' = "open" => view' = file' /\ active' = "owner",
         owns => writer' = "open",
         failure = "append_failed" => file' = file /\ owns = job.owns
  PROVE  CompactionInvariant'
<1>0. job.phase = "committing" /\ job.phase \in Working /\ job.owns /\ job \in Jobs
  BY DEF Appending, Working, CompactionInvariant, CompactionTypes
<1>j. /\ job' \in Jobs /\ job'.phase = "ending" /\ job'.failure = failure /\ job'.owns = owns
      /\ job'.trigger = job.trigger /\ job'.success = job.success
      /\ job'.start = job.start /\ job'.rival = job.rival
  BY <1>0 DEF Jobs, Ending, Phases, Failures
<1>1. FileIsTiled'
  BY FileGrows
<1>2. CompactionTypes'
  BY <1>j DEF CompactionInvariant, CompactionTypes, TypeOK
<1>3. PassIsCurrent'
  BY <1>j DEF PassIsCurrent, Working
<1>4. NotesAreTrue'
  BY <1>0, <1>j DEF CompactionInvariant, NotesAreTrue, Grew, Working
<1>5. QED
  BY <1>1, <1>2, <1>3, <1>4 DEF CompactionInvariant

LEMMA FaultCounts ==
  ASSUME CompactionInvariant, faults < MaxFaults PROVE faults + 1 \in 0 .. MaxFaults
BY BoundAssumption DEF CompactionInvariant, CompactionTypes, TypeOK

LEMMA FileIsCovered ==
  ASSUME CompactionInvariant PROVE Covering(file, CoveredEnd(file)) /\ CoveredEnd(file) \in CoveredEnd(file) .. units
BY BoundAssumption DEF CompactionInvariant, FileIsTiled, Covering, Covers, CompactionTypes, TypeOK

LEMMA CommitAbsentStep == ASSUME CompactionInvariant, CommitAbsent PROVE CompactionInvariant'
<1>1. Appending /\ faults' \in 0 .. MaxFaults /\ UNCHANGED <<file, view, writer, active, units, turn, token, lock, status>>
  BY FaultCounts DEF CommitAbsent, Committing
<1>2. partial' = partial
  <2>1. partial \in BOOLEAN /\ partial' = (partial \/ (FALSE /\ job.trigger # "aging"))
    BY DEF CommitAbsent, Committing, CompactionInvariant, CompactionTypes
  <2>2. QED
    BY <2>1
<1>3. job.owns \in BOOLEAN /\ job' = [Ending("append_failed") EXCEPT !.owns = job.owns]
  BY DEF CommitAbsent, Committing, Ending, CompactionInvariant, CompactionTypes, Jobs
<1>4. writer = "open" /\ active = "owner" /\ view = file
  BY <1>1 DEF Appending, CompactionInvariant, PassIsCurrent, FileIsTiled
<1>5. Covering(file', CoveredEnd(file)) /\ CoveredEnd(file) \in CoveredEnd(file) .. units
  BY <1>1, FileIsCovered
<1>6. QED
  BY <1>1, <1>2, <1>3, <1>4, <1>5, FailedStep

\* What a write of the candidate, in part or whole, leaves in the file.
LEMMA WrittenIsLog ==
  ASSUME CompactionInvariant, job.phase = "committing", NEW n \in 0 .. Len(Candidate) - Len(job.timeline)
  PROVE  \E c \in CoveredEnd(file) .. units : Covering(Written(n), c)
<1>1. Written(n) = SubSeq(Candidate, 1, Len(file) + n) /\ n \in 0 .. Len(Candidate) - Len(file)
  BY DEF Written, CompactionInvariant, PassIsCurrent, Working
<1>2. CASE Written(n) = Candidate
  BY <1>2, CandidateIsLog
<1>3. CASE Written(n) # Candidate
  BY <1>1, <1>3, CandidateIsLog, FileIsCovered
<1>4. QED
  BY <1>2, <1>3

LEMMA CommitUnknownStep == ASSUME CompactionInvariant, CommitUnknown PROVE CompactionInvariant'
<1>0. Appending /\ faults' \in 0 .. MaxFaults /\ job.phase = "committing" /\ active = "owner"
  BY FaultCounts DEF CommitUnknown, Appending, CompactionInvariant, PassIsCurrent
<1>1. PICK n \in 0 .. Len(Candidate) - Len(job.timeline) :
        /\ file' = Written(n)
        /\ \/ /\ view' = Written(n) /\ writer' = "open"
              /\ active' = active
              /\ IF Written(n) = Candidate
                 THEN Committing(Accepted, TRUE)
                 ELSE Committing(Ending("durability_unknown"), FALSE)
           \/ /\ view' = view /\ writer' = "closed"
              /\ active' = "none"
              /\ Committing([Ending("durability_unknown") EXCEPT !.owns = FALSE], FALSE)
  BY DEF CommitUnknown
<1>2. PICK c \in CoveredEnd(file) .. units : Covering(file', c)
  BY <1>0, <1>1, WrittenIsLog
<1>3. CASE view' = Written(n) /\ writer' = "open" /\ active' = active /\ Written(n) = Candidate /\ Committing(Accepted, TRUE)
  BY <1>0, <1>1, <1>3, AcceptedStep
<1>4. ASSUME view' = Written(n), writer' = "open", active' = active, Committing(Ending("durability_unknown"), FALSE)
      PROVE  CompactionInvariant'
  <2>1. UNCHANGED <<units, turn, token, lock, status>>
    BY <1>4 DEF Committing
  <2>2. partial' = partial
    <3>1. partial \in BOOLEAN /\ partial' = (partial \/ (FALSE /\ job.trigger # "aging"))
      BY <1>4 DEF Committing, CompactionInvariant, CompactionTypes
    <3>2. QED
      BY <3>1
  <2>3. job.owns \in BOOLEAN /\ job' = [Ending("durability_unknown") EXCEPT !.owns = job.owns]
    BY <1>4 DEF Committing, Ending, CompactionInvariant, CompactionTypes, Jobs
  <2>4. QED
    BY <1>0, <1>1, <1>2, <1>4, <2>1, <2>2, <2>3, FailedStep
<1>5. ASSUME view' = view, writer' = "closed", active' = "none",
             Committing([Ending("durability_unknown") EXCEPT !.owns = FALSE], FALSE)
      PROVE  CompactionInvariant'
  <2>1. UNCHANGED <<units, turn, token, lock, status>> /\ job' = [Ending("durability_unknown") EXCEPT !.owns = FALSE]
    BY <1>5 DEF Committing
  <2>2. partial' = partial
    <3>1. partial \in BOOLEAN /\ partial' = (partial \/ (FALSE /\ job.trigger # "aging"))
      BY <1>5 DEF Committing, CompactionInvariant, CompactionTypes
    <3>2. QED
      BY <3>1
  <2>3. QED
    BY <1>0, <1>1, <1>2, <1>5, <2>1, <2>2, FailedStep
<1>6. QED
  BY <1>1, <1>3, <1>4, <1>5

LEMMA CrashStep == ASSUME CompactionInvariant, Crash PROVE CompactionInvariant'
<1>0. /\ units' = units /\ faults' \in 0 .. MaxFaults /\ writer' = "closed" /\ active' = "none" /\ turn' = NoTurn
      /\ job' = Idle /\ token' = FALSE /\ lock' = FALSE /\ partial' = FALSE
      /\ status' = [state |-> "idle", changed |-> FALSE]
  BY FaultCounts DEF Crash, Terminal
<1>1. \E c \in CoveredEnd(file) .. units : Covering(file', c)
  <2>1. CASE Appending
    <3>1. job.phase = "committing" /\ \E n \in 0 .. Len(Candidate) - Len(job.timeline) : file' = Written(n)
      BY <2>1 DEF Crash, Appending
    <3>2. QED
      BY <3>1, WrittenIsLog
  <2>2. CASE ~ Appending
    <3>1. file' = file
      BY <2>2 DEF Crash
    <3>2. QED
      BY <3>1, FileIsCovered
  <2>3. QED
    BY <2>1, <2>2
<1>2. FileIsTiled'
  BY <1>0, <1>1, FileGrows
<1>3. Idle \in Jobs /\ Idle.phase = "idle" /\ Idle.trigger = "none"
  <2>1. <<>> \in Seq(Records) /\ {} \in SUBSET Nat
    OBVIOUS
  <2>2. QED
    BY <2>1 DEF Jobs, Idle, Phases, Failures
<1>4. CompactionTypes'
  <2>1. status' \in [state : States, changed : BOOLEAN]
    BY <1>0 DEF States
  <2>2. TypeOK'
    BY <1>0 DEF CompactionInvariant, CompactionTypes, TypeOK
  <2>3. QED
    BY <1>0, <1>3, <2>1, <2>2 DEF CompactionTypes
<1>5. PassIsCurrent' /\ NotesAreTrue'
  BY <1>0, <1>3 DEF PassIsCurrent, NotesAreTrue, Working
<1>6. QED
  BY <1>2, <1>4, <1>5 DEF CompactionInvariant

----------------------------------------------------------------------------
LEMMA CompactionStutters == ASSUME CompactionInvariant, UNCHANGED vars PROVE CompactionInvariant'
<1>0. UNCHANGED <<units, file, view, writer, faults, active, turn, job, token, lock, status, partial>>
  BY DEF vars
<1>1. CompactionTypes'
  BY <1>0 DEF CompactionInvariant, CompactionTypes, TypeOK
<1>2. FileIsTiled'
  BY <1>0, FileStays DEF CompactionInvariant, FileIsTiled
<1>3. PassIsCurrent' /\ NotesAreTrue'
  BY <1>0 DEF CompactionInvariant, PassIsCurrent, Plans, NotesAreTrue, Grew
<1>4. QED
  BY <1>1, <1>2, <1>3 DEF CompactionInvariant

LEMMA PassStep == ASSUME CompactionInvariant, Pass PROVE CompactionInvariant'
<1>1. ASSUME SummarizeEpoch \/ SummarizeOversized \/ SummarizeAging PROVE CompactionInvariant'
  BY <1>1, SummarisedStep DEF SummarizeEpoch, SummarizeOversized, SummarizeAging
<1>2. ASSUME ValidateManual \/ ValidateAutomatic \/ ValidateAging PROVE CompactionInvariant'
  <2>1. \E failures \in SUBSET {"cancelled", "commit_failed"} : Verdicts(failures)
    <3>1. Cancelled \in SUBSET {"cancelled", "commit_failed"}
      BY DEF Cancelled
    <3>2. {} \in SUBSET {"cancelled", "commit_failed"}
          /\ Cancelled \cup {"commit_failed"} \in SUBSET {"cancelled", "commit_failed"}
      BY <3>1
    <3>3. CASE ValidateManual
      BY <3>1, <3>2, <3>3 DEF ValidateManual
    <3>4. CASE ValidateAutomatic
      BY <3>1, <3>4 DEF ValidateAutomatic
    <3>5. CASE ValidateAging
      BY <3>2, <3>5 DEF ValidateAging
    <3>6. QED
      BY <1>2, <3>3, <3>4, <3>5
  <2>2. QED
    BY <2>1, VerdictsStep
<1>3. ASSUME ContinueManual \/ ContinueAutomatic PROVE CompactionInvariant'
  BY <1>3, DecidedStep DEF ContinueManual, ContinueAutomatic
<1>4. QED
  BY <1>1, <1>2, <1>3, LimitsKnownStep, PlanEpochStep, SummaryCancelledStep, CommitRefusedStep, CommitDurableStep,
     CommitAbsentStep, CommitUnknownStep, PassRaisesStep, TaskCancelledStep, EndPassStep DEF Pass

\* The invariant is inductive: the file is a log whose derived records tile the
\* units up to its coverage, a pass works on that file with a plan made of it,
\* and its notes of success say whether the coverage has grown since it began.
THEOREM CompactionInductive == Spec => []CompactionInvariant
<1>1. ASSUME CompactionInvariant, [Next]_vars PROVE CompactionInvariant'
  <2>1. ASSUME BeginAuto \/ BeginOverflow \/ BeginAging PROVE CompactionInvariant'
    <3>1. \E trigger \in Automatic : BeginAutomatic(trigger)
      BY <2>1 DEF BeginAuto, BeginOverflow, BeginAging, Automatic
    <3>2. QED
      BY <1>1, <3>1, BeginAutomaticStep
  <2>2. CASE Pass
    BY <1>1, <2>2, PassStep
  <2>3. CASE UNCHANGED vars
    BY <1>1, <2>3, CompactionStutters
  <2>4. QED
    BY <1>1, <2>1, <2>2, <2>3, BeginManualStep, RivalStep, CrashStep, OpenStep, NavigateStep, AroundStep DEF Next
<1>2. QED
  BY <1>1, CompactionInitial, PTL DEF Spec

\* Whatever passes commit, and whatever transactions crashes and failing appends
\* leave behind, the logical records of the Timeline cover the Turns up to some
\* Turn, each once, for any number of Turns, epochs and faults
\* (core/history.py Timeline, application/generation.py commit callbacks).
THEOREM SummariesCoverOnce == Spec => []SummariesTile
<1>1. CompactionInvariant => SummariesTile
  <2> SUFFICES ASSUME CompactionInvariant PROVE SummariesTile
    OBVIOUS
  <2>1. TypeOK /\ CoveredEnd(file) <= units /\ (writer = "open" => view = file) /\ Covers(file, CoveredEnd(file))
    BY DEF CompactionInvariant, CompactionTypes, FileIsTiled
  <2>2. ASSUME NEW u \in 1 .. CoveredEnd(file)
        PROVE  Cardinality({i \in Logical(file) : u \in file[i].cover}) = 1
    <3>1. PICK i \in Logical(file) : u \in file[i].cover /\ \A j \in Logical(file) : u \in file[j].cover => j = i
      BY <2>1 DEF Covers
    <3>2. {j \in Logical(file) : u \in file[j].cover} = {i}
      BY <3>1
    <3>3. QED
      BY <3>2, FS_Singleton
  <2>3. QED
    BY <2>1, <2>2 DEF SummariesTile
<1>2. QED
  BY <1>1, CompactionInductive, PTL

\* The public lifecycle of a compaction that has ended says it changed something
\* exactly when its summaries became durable, for every interleaving of passes,
\* cancellation, failing appends and navigation (application/context.py).
THEOREM StatusTellsTheTruth == Spec => []StatusIsHonest
<1>1. CompactionInvariant => StatusIsHonest
  BY DEF CompactionInvariant, NotesAreTrue, StatusIsHonest, Grew
<1>2. QED
  BY <1>1, CompactionInductive, PTL
----------------------------------------------------------------------------
(* What a Provider is sent.                                                    *)
\* A request has these four parts, and a count is of its own messages.
Shaped(r) == r = [part \in {"messages", "gate", "levels", "note"} |-> r[part]]
CountedBy(r, answer) == r.gate = Gate(r.messages, answer)

\* The count that compaction interrupts is of the request that waits for it.
RequestInvariant ==
  /\ Shaped(counted)
  /\ phase \in {"late room", "again", "settled"} => count \in Answers(counted)
  /\ SentFits

LEMMA ReducedIsRecounted ==
  ASSUME NEW r, NEW level, NEW m, Shaped(r)
  PROVE  LET after == Reduced(r, level, m)
         IN  Shaped(after) /\ (CountedBy(r, <<>>) => CountedBy(after, <<>>))
<1> DEFINE after == [r EXCEPT !.messages = m, !.gate = Gate(m, <<>>), !.levels = Append(@, level)]
<1>1. after.gate = Gate(m, <<>>) /\ after.messages = m /\ Shaped(after)
  <2> DEFINE g == Gate(m, <<>>)
  <2> HIDE DEF g
  <2>1. [r EXCEPT !.messages = m, !.gate = g, !.levels = Append(@, level)].gate = g
    BY DEF Shaped
  <2>2. [r EXCEPT !.messages = m, !.gate = g, !.levels = Append(@, level)].messages = m
    BY DEF Shaped
  <2>3. Shaped([r EXCEPT !.messages = m, !.gate = g, !.levels = Append(@, level)])
    BY DEF Shaped
  <2> QED BY <2>1, <2>2, <2>3 DEF g
<1>2. Shaped(after) /\ CountedBy(after, <<>>)
  BY <1>1 DEF CountedBy
<1>3. Reduced(r, level, m) = r \/ Reduced(r, level, m) = after
  BY DEF Reduced
<1> QED BY <1>2, <1>3

LEMMA ComposedIsCounted ==
  ASSUME NEW cover, NEW answer, NEW r \in ComposedOver(cover, answer)
  PROVE  Shaped(r) /\ (answer = <<>> => CountedBy(r, <<>>))
<1> DEFINE plain == [messages |-> Compiled(cover), gate |-> Gate(Compiled(cover), answer), levels |-> <<>>, note |-> room]
           first == Reduced(plain, "L1", Externalized(plain.messages))
<1>1. Shaped(plain) /\ (answer = <<>> => CountedBy(plain, <<>>))
  BY DEF Shaped, CountedBy
<1>2. Shaped(first) /\ (answer = <<>> => CountedBy(first, <<>>))
  <2> HIDE DEF plain
  <2> QED BY <1>1, ReducedIsRecounted
<1>3. r = Reduced(first, "L2", Shrunk(first.messages))
  BY DEF ComposedOver
<1> HIDE DEF first
<1> QED BY <1>2, <1>3, ReducedIsRecounted

LEMMA FinalIsCounted ==
  ASSUME NEW r, NEW answer, Shaped(r)
  PROVE  /\ Shaped(FinalOf(r, answer)) /\ CountedBy(FinalOf(r, answer), answer)
         /\ FinalOf(r, answer).messages = r.messages
<1> DEFINE g == Gate(r.messages, answer)
<1>1. FinalOf(r, answer) = [r EXCEPT !.gate = g, !.note = room]
  BY DEF FinalOf
<1> HIDE DEF g
<1>2. [r EXCEPT !.gate = g, !.note = room].gate = g /\ [r EXCEPT !.gate = g, !.note = room].messages = r.messages
  BY DEF Shaped
<1>3. Shaped([r EXCEPT !.gate = g, !.note = room])
  BY DEF Shaped
<1> QED BY <1>1, <1>2, <1>3 DEF CountedBy, g

\* What passes the Hard Gate by a count of its own fits.
LEMMA SafeFits ==
  ASSUME NEW r, NEW answer, CountedBy(r, answer), answer = <<>> \/ answer \in Answers(r), r.gate.safe, posted' = r
  PROVE  SentFits'
<1> DEFINE g == Gate(r.messages, answer)
<1>1. r.gate = g
  BY DEF CountedBy
<1>2. /\ g.usage = g.tokens + Allowance(InputLimit, g.source)
      /\ g.safe <=> /\ g.usage <= InputLimit
                    /\ Images(r.messages) > 0 => g.source = "provider"
                    /\ OutputLimit = 0 \/ OutputReserve <= OutputLimit
                    /\ CombinedLimit = 0 \/ g.usage + OutputReserve <= CombinedLimit
  BY DEF Gate
<1>3. CASE answer = <<>>
  <2>1. g.source = "local" /\ g.tokens = Tokens(r.messages)
    BY <1>3 DEF Gate
  <2> HIDE DEF g
  <2> QED BY <1>1, <1>2, <2>1 DEF SentFits
<1>4. CASE answer \in Answers(r)
  <2>1. PICK x : answer = <<x>>
    BY <1>4 DEF Answers
  <2>2. g.source = "provider" /\ g.tokens = x
    BY <2>1 DEF Gate
  <2> HIDE DEF g
  <2> QED BY <1>1, <1>2, <1>4, <2>1, <2>2 DEF SentFits
<1> QED BY <1>3, <1>4

LEMMA RequestFails == ASSUME NEW why, Fail(why) PROVE RequestInvariant'
<1>1. phase' = "idle" /\ counted' = NoRequest
  BY DEF Fail
<1> QED BY <1>1 DEF RequestInvariant, SentFits, Shaped, NoRequest

LEMMA RequestIsSent ==
  ASSUME NEW r, NEW answer, CountedBy(r, answer), answer = <<>> \/ answer \in Answers(r), r.gate.safe, Send(r)
  PROVE  RequestInvariant'
<1>1. phase' = "sent" /\ counted' = NoRequest /\ posted' = r
  BY DEF Send
<1>2. SentFits'
  BY <1>1, SafeFits
<1> QED BY <1>1, <1>2 DEF RequestInvariant, Shaped, NoRequest

LEMMA RequestIsCounted ==
  ASSUME NEW r, NEW answer, NEW round,
         Shaped(r), NEW where \in {"first count", "second count", "last count"}, AskCount(r, answer, where, round)
  PROVE  RequestInvariant'
<1>1. phase' \in {"first count", "second count", "last count"} /\ counted' = r
  BY DEF AskCount
<1> QED BY <1>1 DEF RequestInvariant, SentFits, Shaped

LEMMA FinalizeStep ==
  ASSUME NEW r, NEW answer, NEW round, Shaped(r), answer \in Answers(r), Finalize(r, answer, round)
  PROVE  RequestInvariant'
<1> DEFINE final == FinalOf(r, answer)
<1>1. Shaped(final) /\ CountedBy(final, answer)
  BY FinalIsCounted
<1>2. CASE ~final.gate.safe
  <2>1. Fail("exact")
    BY <1>2 DEF Finalize
  <2> QED BY <2>1, RequestFails
<1>3. CASE final.gate.safe /\ final = r
  <2>1. Send(r)
    BY <1>3 DEF Finalize
  <2>2. CountedBy(r, answer) /\ r.gate.safe
    BY <1>1, <1>3
  <2> HIDE DEF final
  <2> QED BY <2>1, <2>2, RequestIsSent
<1>4. CASE final.gate.safe /\ final # r
  <2>1. AskCount(final, answer, "last count", round)
    BY <1>4 DEF Finalize
  <2> HIDE DEF final
  <2> QED BY <1>1, <2>1, RequestIsCounted
<1> QED BY <1>2, <1>3, <1>4

LEMMA SettleStep ==
  ASSUME NEW r, NEW answer, NEW round, Shaped(r), answer \in Answers(r), Settle(r, answer, round)
  PROVE  RequestInvariant'
<1>1. CASE Fail("unstable")
  BY <1>1, RequestFails
<1>2. CASE AskCount(r, answer, "late room", round)
  <2>1. counted' = r /\ count' = answer /\ phase' = "late room"
    BY <1>2 DEF AskCount
  <2>2. Answers(counted)' = Answers(r)
    BY <2>1 DEF Answers
  <2> QED BY <2>1, <2>2 DEF RequestInvariant, SentFits, Shaped
<1>3. CASE Finalize(r, answer, round)
  BY <1>3, FinalizeStep
<1> QED BY <1>1, <1>2, <1>3 DEF Settle

LEMMA RebuiltStep ==
  ASSUME NEW answer \in Answers(counted), NEW round, Shaped(counted), Rebuilt(answer, round)
  PROVE  RequestInvariant'
<1>1. PICK candidate \in Composed(answer) :
        IF candidate = counted THEN Settle(counted, answer, round)
        ELSE AskCount(candidate, answer, "second count", round) /\ UNCHANGED room
  BY DEF Rebuilt
<1>2. CASE candidate = counted
  <2>1. Settle(counted, answer, round)
    BY <1>1, <1>2
  <2> QED BY <2>1, SettleStep
<1>3. CASE candidate # counted
  <2>1. AskCount(candidate, answer, "second count", round)
    BY <1>1, <1>3
  <2>2. Shaped(candidate)
    BY <1>1, ComposedIsCounted DEF Composed
  <2> QED BY <2>1, <2>2, RequestIsCounted
<1> QED BY <1>2, <1>3

\* Compaction leaves what waits to be sent alone.
LEMMA RoomKeepsCount ==
  ASSUME RequestInvariant, phase \in Rooms, UNCHANGED <<counted, count>>,
         phase' \in {phase, "ready", "idle"} \/ (phase = "late room" /\ phase' \in {"again", "settled"})
  PROVE  RequestInvariant'
BY DEF RequestInvariant, SentFits, Shaped, Rooms, Answers

LEMMA RequestSteps == ASSUME RequestInvariant, RequestNext PROVE RequestInvariant'
<1>0. Shaped(counted)
  BY DEF RequestInvariant
<1>1. CASE BeginTurn \/ Say \/ CloseTurn \/ Prepare \/ Reply \/ Overflow
  <2>1. CASE Overflow /\ overflowed
    BY <2>1, RequestFails DEF Overflow
  <2>2. CASE ~(Overflow /\ overflowed)
    <3>1. counted' = counted /\ phase' \in {"idle", "early room", "ready", "recovery"}
      BY <1>1, <2>2 DEF BeginTurn, Say, CloseTurn, Prepare, Reply, Overflow
    <3> QED BY <3>1, <1>0 DEF RequestInvariant, SentFits, Shaped
  <2> QED BY <2>1, <2>2
<1>2. CASE FirstCandidate
  <2>1. phase' = "first count" /\ counted' \in ComposedOver(covered, <<>>)
    BY <1>2 DEF FirstCandidate, Composed
  <2>2. Shaped(counted')
    BY <2>1, ComposedIsCounted
  <2> QED BY <2>1, <2>2 DEF RequestInvariant, SentFits, Shaped
<1>3. CASE NoCount
  <2>1. PICK r \in ComposedOver(covered, <<>>) : IF r.gate.safe THEN Send(r) ELSE Fail("local")
    BY <1>3 DEF NoCount, SendLocally, Composed
  <2>2. CountedBy(r, <<>>)
    BY ComposedIsCounted
  <2>3. CASE r.gate.safe
    BY <2>1, <2>2, <2>3, RequestIsSent
  <2>4. CASE ~r.gate.safe
    BY <2>1, <2>4, RequestFails
  <2> QED BY <2>3, <2>4
<1>4. CASE CountBreaks \/ ProviderFails
  BY <1>4, RequestFails DEF CountBreaks, ProviderFails
<1>5. CASE FirstCount
  BY <1>0, <1>5, RebuiltStep DEF FirstCount
<1>6. CASE SecondCount
  BY <1>0, <1>6, SettleStep DEF SecondCount
<1>7. CASE LastCount
  BY <1>0, <1>7, SettleStep DEF LastCount
<1>8. CASE CompactEpoch
  <2>1. /\ phase \in Rooms /\ UNCHANGED <<counted, count>>
        /\ phase' = phase \/ phase' = AfterRoom(TRUE)
    BY <1>8 DEF CompactEpoch
  <2> QED BY <2>1, RoomKeepsCount DEF AfterRoom, Rooms
<1>9. CASE CompactNoMore
  <2>1. CASE phase = "recovery"
    BY <1>9, <2>1, RequestFails DEF CompactNoMore
  <2>2. CASE phase # "recovery"
    <3>1. phase \in Rooms /\ UNCHANGED <<counted, count>> /\ phase' = AfterRoom(room.epochs > 0)
      BY <1>9, <2>2 DEF CompactNoMore
    <3> QED BY <2>2, <3>1, RoomKeepsCount DEF AfterRoom, Rooms
  <2> QED BY <2>1, <2>2
<1>10. CASE Again
  <2>1. count \in Answers(counted)
    BY <1>10 DEF Again, RequestInvariant
  <2>2. CASE rounds = MaxRounds
    BY <1>10, <2>2, RequestFails DEF Again
  <2>3. CASE rounds # MaxRounds
    <3>1. Rebuilt(count, rounds + 1)
      BY <1>10, <2>3 DEF Again
    <3> QED BY <1>0, <2>1, <3>1, RebuiltStep
  <2> QED BY <2>2, <2>3
<1>11. CASE KeepCounted
  <2>1. count \in Answers(counted) /\ Finalize(counted, count, rounds)
    BY <1>11 DEF KeepCounted, RequestInvariant
  <2> QED BY <1>0, <2>1, FinalizeStep
<1> QED BY <1>1, <1>2, <1>3, <1>4, <1>5, <1>6, <1>7, <1>8, <1>9, <1>10, <1>11 DEF RequestNext

\* However often a request is composed, reduced, counted and compacted, in
\* whatever order the Provider's counts, their absence and its overflows come,
\* the one it is sent passed the Hard Gate by a count of its own messages
\* (application/request_preparation.py, application/generation.py), for any
\* Turns, sizes and limits.
THEOREM WhatIsSentFits == RequestSpec => []SentFits
<1>1. RequestInit => RequestInvariant
  BY DEF RequestInit, RequestInvariant, Shaped, NoRequest, SentFits
<1>2. RequestInvariant /\ [RequestNext]_requestVars => RequestInvariant'
  <2> SUFFICES ASSUME RequestInvariant, [RequestNext]_requestVars PROVE RequestInvariant'
    OBVIOUS
  <2>1. CASE UNCHANGED requestVars
    BY <2>1 DEF requestVars, RequestInvariant, Shaped, SentFits, Answers
  <2> QED BY <2>1, RequestSteps
<1>3. RequestInvariant => SentFits
  BY DEF RequestInvariant
<1> QED BY <1>1, <1>2, <1>3, PTL DEF RequestSpec
=============================================================================
