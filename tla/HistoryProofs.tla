---------------------------- MODULE HistoryProofs ----------------------------
(***************************************************************************)
(* Theorems about RunHistory, for every bound and with every fault: types, *)
(* the file only grows, quarantine holds, nothing the cursor acknowledges  *)
(* is missing from the file, and nothing unacknowledged is forgotten.      *)
(* Before the theorems: the invariant, facts about entries and the writer, *)
(* and one lemma for each action of the run.  The last part proves that    *)
(* the file tells the run in order, with an invariant of its own (Told).   *)
(***************************************************************************)
EXTENDS HistoryProperties, SequenceTheorems, TLAPS

\* ------------------------------------------------------ inductive invariant

\* The synchronous calls of AgentRun, and the Turn they work for.
SyncShape ==
    /\ sync \in {"event", "prepare"} => Running /\ active.bound
    /\ sync = "complete" => Running
    /\ sync = "start" => ~Running
    /\ Running => /\ active.id # 0
                  /\ active.id \in RunTurns
                  /\ active.start <= Len(messages)

\* At most one batch waits, right behind the cursor, for the Turn at work.
QueueShape ==
    /\ persisted <= Len(messages)
    /\ Len(queue) <= 1
    /\ queue # <<>> =>
        /\ queue[1].first = persisted + 1
        /\ persisted <= queue[1].last /\ queue[1].last <= Len(messages)
        /\ queue[1].turn \in RunTurns
    /\ Running /\ queue # <<>> => /\ active.bound
                                  /\ queue[1].turn = active.id
                                  /\ active.start <= queue[1].last

\* The messages before a Turn with a Session are durable once it has begun,
\* and with a Session in every Turn from its start.
Settled ==
    Running /\ active.bound =>
        /\ queue = <<>> /\ active.phase # "begin" => active.start <= persisted
        /\ ~Sessionless => active.start <= persisted

\* With a Session in every Turn the queue reaches the last message.
Gap == IF queue = <<>> THEN persisted = Len(messages)
       ELSE queue[1].last = Len(messages)
NoGap == ~Sessionless => /\ Running => active.bound
                         /\ ~Running \/ sync = "complete" => Gap

IInv == TypeOK /\ SyncShape /\ QueueShape /\ Settled /\ NoGap /\ AckedIsDurable

\* ------------------------------------------------------------- sequences

\* One log is the other with more entries behind it.
Grown(old, new) == \E x \in Seq(Entry) : new = old \o x

(* The entries of a run of messages are entries, two for each message
   (transcript_entries_from_message). *)
LEMMA EntriesTyped ==
    ASSUME NEW run \in Seq(Message), NEW t \in Nat,
           NEW first \in Nat, NEW last \in Nat,
           1 <= first, first <= last + 1, last <= Len(run)
    PROVE  /\ EntriesOf(run, t, first, last) \in Seq(Entry)
           /\ Len(EntriesOf(run, t, first, last)) = 2 * ((last + 1) - first)
<1> DEFINE n == 2 * ((last + 1) - first)
           es == EntriesOf(run, t, first, last)
<1>1. n \in Nat
    OBVIOUS
<1>2. \A j \in 1..n : /\ first + ((j - 1) \div 2) \in 1..Len(run)
                      /\ ((j - 1) % 2) + 1 \in 0..2
                      /\ first + ((j - 1) \div 2) \in Nat
    BY Z3
<1>3. \A m \in 1..Len(run) : run[m].kind \in EntryKinds
  <2>1. \A m \in 1..Len(run) : run[m] \in Message
    OBVIOUS
  <2>2. \A msg \in Message : msg.kind \in EntryKinds
    BY DEF Message, EntryKinds
  <2>3. QED
    BY <2>1, <2>2
<1>4. ASSUME NEW j \in 1..n
      PROVE  [turn |-> t, msg |-> first + ((j - 1) \div 2),
              part |-> ((j - 1) % 2) + 1,
              kind |-> run[first + ((j - 1) \div 2)].kind] \in Entry
    BY <1>2, <1>3 DEF Entry, Parts
<1>5. es \in [1..n -> Entry]
    BY <1>4 DEF EntriesOf, Parts
<1>6. QED
    BY <1>1, <1>5

\* The entry for part p of message m.
PartEntry(run, t, m, p) ==
    [turn |-> t, msg |-> m, part |-> p, kind |-> run[m].kind]

(* Message m of a run puts its part p among its entries
   (transcript_entries_from_message). *)
LEMMA EntryAt ==
    ASSUME NEW run \in Seq(Message), NEW t \in Nat,
           NEW first \in Nat, NEW last \in Nat,
           1 <= first, first <= last + 1, last <= Len(run),
           NEW m \in first..last, NEW p \in 1..2
    PROVE  \E i \in 1..Len(EntriesOf(run, t, first, last)) :
              EntriesOf(run, t, first, last)[i] = PartEntry(run, t, m, p)
<1> DEFINE i == 2 * (m - first) + p
           n == 2 * ((last + 1) - first)
<1>1. i \in 1..n
    OBVIOUS
<1>2. first + ((i - 1) \div 2) = m /\ ((i - 1) % 2) + 1 = p
    BY Z3
<1>3. EntriesOf(run, t, first, last)[i] = PartEntry(run, t, m, p)
    BY <1>1, <1>2 DEF EntriesOf, Parts, PartEntry
<1>4. Len(EntriesOf(run, t, first, last)) = n
    BY EntriesTyped
<1>5. QED
    BY <1>1, <1>3, <1>4

(* Appending keeps every entry of a log in its place. *)
LEMMA GrownKeeps ==
    ASSUME NEW old \in Seq(Entry), NEW new, Grown(old, new)
    PROVE  /\ new \in Seq(Entry)
           /\ Len(old) <= Len(new)
           /\ \A i \in 1..Len(old) : new[i] = old[i]
           /\ IsPrefix(old, new)
<1>1. PICK x \in Seq(Entry) : new = old \o x
    BY DEF Grown
<1>2. /\ new \in Seq(Entry)
      /\ Len(new) = Len(old) + Len(x)
      /\ \A i \in 1..Len(old) : new[i] = old[i]
    BY <1>1
<1>3. Len(old) <= Len(new)
    BY <1>2
<1>4. SubSeq(old, 1, Len(old)) = SubSeq(new, 1, Len(old))
    BY <1>2, <1>3
<1>5. QED
    BY <1>2, <1>3, <1>4 DEF IsPrefix

(* A log is itself with nothing behind it. *)
LEMMA GrownNot ==
    ASSUME NEW old \in Seq(Entry)
    PROVE  Grown(old, old)
<1>1. <<>> \in Seq(Entry) /\ old = old \o <<>>
    OBVIOUS
<1>2. QED
    BY <1>1 DEF Grown

\* ------------------------------------------------------------- the writer

(* Whatever becomes of a write, it adds entries behind the others. *)
LEMMA CutGrows ==
    ASSUME SessionTypeOK, NEW es \in Seq(Entry),
           NEW k \in 0..Len(es), NEW rest \in BOOLEAN, Cut(es, k, rest)
    PROVE  /\ Grown(lines, lines')
           /\ lines' \in Seq(Entry) /\ torn' \in BOOLEAN /\ broken' \in BOOLEAN
<1>1. SubSeq(es, 1, k) \in Seq(Entry)
    OBVIOUS
<1>2. Grown(lines, lines')
    BY <1>1 DEF Cut, Grown
<1>3. lines' \in Seq(Entry)
    BY <1>2, GrownKeeps DEF SessionTypeOK
<1>4. QED
    BY <1>2, <1>3 DEF Cut, SessionTypeOK

(* An append keeps the types, adds entries behind the others, and adds all of
   them when it reports them durable (append_transcript). *)
LEMMA AppendGrows ==
    ASSUME SessionTypeOK, NEW es \in Seq(Entry), NEW verdict,
           PersistMessages(es, verdict)
    PROVE  /\ SessionTypeOK'
           /\ Grown(lines, lines')
           /\ verdict = "durable" => lines' = lines \o es
           /\ writer = "unknown" => lines' = lines /\ writer' = "unknown"
<1> USE DEF SessionTypeOK, Writers
<1>1. CASE UNCHANGED sessionVars /\ verdict # "durable"
    BY <1>1, GrownNot DEF sessionVars
<1>2. CASE Confirmed(es, verdict) /\ writer = "open"
  <2>1. Grown(lines, lines')
    BY <1>2 DEF Confirmed, Grown
  <2>2. lines' \in Seq(Entry)
    BY <2>1, GrownKeeps
  <2>3. QED
    BY <1>2, <2>1, <2>2 DEF Confirmed
<1>3. CASE Absent(verdict) /\ writer = "open"
    BY <1>3, GrownNot DEF Absent
<1>4. CASE Ambiguous(es, verdict) /\ writer = "open"
  <2>1. PICK k \in 0..Len(es), rest \in BOOLEAN : Cut(es, k, rest)
    BY <1>4 DEF Ambiguous
  <2>2. QED
    BY <1>4, <2>1, CutGrows DEF Ambiguous
<1>5. QED
    BY <1>1, <1>2, <1>3, <1>4 DEF PersistMessages, AppendTranscript, Refused

(* Opening, releasing and losing the writer leave the lines alone. *)
LEMMA SessionKeeps ==
    ASSUME SessionTypeOK, OpenWriter \/ CloseWriter \/ LoseMetadata
    PROVE  /\ SessionTypeOK'
           /\ lines' = lines
           /\ writer = "unknown" => writer' = "none"
    BY DEF SessionTypeOK, Writers, OpenWriter, CloseWriter, LoseMetadata,
       fileVars

(* A crash leaves what reached the file. *)
LEMMA CrashGrows ==
    ASSUME SessionTypeOK, NEW es \in Seq(Entry), CrashWriter(es)
    PROVE  /\ SessionTypeOK'
           /\ Grown(lines, lines')
           /\ writer' = "none"
           /\ es = <<>> => lines' = lines
<1>1. PICK k \in 0..Len(es), rest \in BOOLEAN : Cut(es, k, rest)
    BY DEF CrashWriter
<1>2. <<>> \in Seq(Entry)
    OBVIOUS
<1>3. es = <<>> => lines' = lines
  <2>1. SUFFICES ASSUME es = <<>> PROVE lines' = lines
    OBVIOUS
  <2>2. SubSeq(es, 1, k) = <<>> /\ lines \o <<>> = lines
    BY <2>1 DEF SessionTypeOK
  <2>3. QED
    BY <1>1, <2>2 DEF Cut, SessionTypeOK
<1>4. QED
    BY <1>1, <1>2, <1>3, CutGrows DEF CrashWriter, SessionTypeOK, Writers

\* ------------------------------------------------------------- the batches

(* The entries of a batch within the run, and of its failure, are entries. *)
LEMMA BatchTyped ==
    ASSUME TypeOK, NEW b \in Batch,
           1 <= b.first, b.first <= b.last + 1, b.last <= Len(messages)
    PROVE  BatchEntries(b) \in Seq(Entry)
<1> DEFINE rest == IF b.failed THEN <<FailureEntry(b.turn)>> ELSE <<>>
           main == EntriesOf(messages, b.turn, b.first, b.last)
<1>1. b.turn \in Nat /\ b.first \in Nat /\ b.last \in Nat
    BY DEF Batch
<1>2. messages \in Seq(Message)
    BY DEF TypeOK
<1>3. main \in Seq(Entry)
    BY <1>1, <1>2, EntriesTyped
<1>4. FailureEntry(b.turn) \in Entry
    BY <1>1 DEF FailureEntry, Entry, EntryKinds, Parts
<1>5. rest \in Seq(Entry)
    BY <1>4
<1>6. main \o rest \in Seq(Entry)
    BY <1>3, <1>5
<1>7. QED
    BY <1>6 DEF BatchEntries

\* The messages of the run stay, and more may follow them.
Continues == \A i \in 1..Len(messages) : /\ i \in 1..Len(messages')
                                         /\ messages'[i] = messages[i]

(* The Turns of a run have identifiers. *)
LEMMA TurnsTyped ==
    ASSUME messages \in Seq(Message), NEW t \in RunTurns
    PROVE  t \in Nat
<1>1. PICK i \in DOMAIN messages : t = messages[i].turn
    BY DEF RunTurns
<1>2. messages[i] \in Message
    BY <1>1
<1>3. QED
    BY <1>1, <1>2 DEF Message

(* The Turns of a run stay while messages are added. *)
LEMMA TurnsStay ==
    ASSUME messages \in Seq(Message), messages' \in Seq(Message), Continues
    PROVE  RunTurns \subseteq RunTurns'
    BY DEF RunTurns, Continues

(* What is durable stays durable while the file and the run grow. *)
LEMMA AckedStays ==
    ASSUME IInv, messages' \in Seq(Message), Continues,
           Grown(lines, lines'), persisted' = persisted
    PROVE  AckedIsDurable'
<1>1. lines \in Seq(Entry) /\ messages \in Seq(Message) /\ persisted \in Nat
    BY DEF IInv, TypeOK, SessionTypeOK
<1>2. /\ lines' \in Seq(Entry)
      /\ \A i \in DOMAIN lines : i \in DOMAIN lines' /\ lines'[i] = lines[i]
    BY <1>1, GrownKeeps
<1>3. RunTurns \subseteq RunTurns'
    BY <1>1, TurnsStay
<1>4. SUFFICES ASSUME NEW m \in 1..persisted, NEW p \in 1..Parts
               PROVE  \E i \in DOMAIN lines' : Stores(i, m, p)'
    BY DEF AckedIsDurable
<1>5. PICK i \in DOMAIN lines : Stores(i, m, p)
    BY DEF IInv, AckedIsDurable
<1>6. m \in 1..Len(messages)
    BY <1>1 DEF IInv, QueueShape
<1>7. messages'[m] = messages[m]
    BY <1>6 DEF Continues
<1>8. Stores(i, m, p)'
    BY <1>2, <1>3, <1>5, <1>7 DEF Stores
<1>9. QED
    BY <1>2, <1>8

(* The entries in the middle of a log are found there, moved. *)
LEMMA ConcatTwo ==
    ASSUME NEW log \in Seq(Entry), NEW es \in Seq(Entry), NEW z \in Seq(Entry)
    PROVE  /\ Grown(log, log \o (es \o z))
           /\ \A j \in DOMAIN es : /\ Len(log) + j \in DOMAIN (log \o (es \o z))
                                  /\ (log \o (es \o z))[Len(log) + j] = es[j]
<1> DEFINE w == es \o z
<1>1. /\ w \in Seq(Entry)
      /\ \A j \in DOMAIN es : j \in DOMAIN w /\ w[j] = es[j]
    OBVIOUS
<1> HIDE DEF w
<1>2. Grown(log, log \o w)
    BY <1>1 DEF Grown
<1>3. \A j \in DOMAIN w : /\ Len(log) + j \in DOMAIN (log \o w)
                          /\ (log \o w)[Len(log) + j] = w[j]
    BY <1>1
<1>4. \A j \in DOMAIN es : /\ Len(log) + j \in DOMAIN (log \o w)
                           /\ (log \o w)[Len(log) + j] = es[j]
    BY <1>1, <1>3
<1>5. QED
    BY <1>2, <1>4 DEF w

(* The entries of everything behind the cursor. *)
LEMMA EntriesBehind ==
    ASSUME messages \in Seq(Message), NEW t \in Nat,
           persisted \in Nat, NEW last \in Nat,
           persisted <= last, last <= Len(messages)
    PROVE  LET es == EntriesOf(messages, t, persisted + 1, last)
           IN  /\ es \in Seq(Entry)
               /\ \A m \in (persisted + 1)..last, p \in 1..Parts :
                     \E j \in DOMAIN es : es[j] = PartEntry(messages, t, m, p)
<1> DEFINE first == persisted + 1
           es == EntriesOf(messages, t, first, last)
<1>1. first \in Nat /\ 1 <= first /\ first <= last + 1
    OBVIOUS
<1> HIDE DEF first
<1>2. es \in Seq(Entry)
    BY <1>1, EntriesTyped
<1>3. \A m \in first..last, p \in 1..2 :
          \E j \in 1..Len(es) : es[j] = PartEntry(messages, t, m, p)
    BY <1>1, EntryAt
<1>4. DOMAIN es = 1..Len(es)
    BY <1>2
<1> HIDE DEF es
<1>5. QED
    BY <1>2, <1>3, <1>4 DEF Parts, es, first

(* An append of everything behind the cursor lets the cursor follow. *)
LEMMA AckedFollows ==
    ASSUME IInv, NEW t \in RunTurns, NEW last \in Nat,
           NEW es \in Seq(Entry), NEW z \in Seq(Entry),
           \A m \in (persisted + 1)..last, p \in 1..Parts :
                \E j \in DOMAIN es : es[j] = PartEntry(messages, t, m, p),
           lines' = lines \o (es \o z),
           messages' = messages, persisted' = last
    PROVE  AckedIsDurable'
<1>1. lines \in Seq(Entry) /\ messages \in Seq(Message) /\ persisted \in Nat
    BY DEF IInv, TypeOK, SessionTypeOK
<1>2. /\ Grown(lines, lines')
      /\ \A j \in DOMAIN es : /\ Len(lines) + j \in DOMAIN lines'
                             /\ lines'[Len(lines) + j] = es[j]
    BY <1>1, ConcatTwo
<1>3. \A i \in DOMAIN lines : i \in DOMAIN lines' /\ lines'[i] = lines[i]
    BY <1>1, <1>2, GrownKeeps
<1>4. RunTurns' = RunTurns
    BY DEF RunTurns
<1>5. SUFFICES ASSUME NEW m \in 1..last, NEW p \in 1..Parts
               PROVE  \E i \in DOMAIN lines' : Stores(i, m, p)'
    BY DEF AckedIsDurable
<1>6. CASE m \in 1..persisted
  <2>1. PICK i \in DOMAIN lines : Stores(i, m, p)
    BY <1>6 DEF IInv, AckedIsDurable
  <2>2. i \in DOMAIN lines' /\ lines'[i] = lines[i]
    BY <1>3, <2>1
  <2>3. Stores(i, m, p)'
    BY <1>4, <2>1, <2>2 DEF Stores
  <2>4. QED
    BY <2>2, <2>3
<1>7. CASE m \in (persisted + 1)..last
  <2>1. PICK j \in DOMAIN es : es[j] = PartEntry(messages, t, m, p)
    BY <1>7
  <2>2. PICK k \in DOMAIN lines' : lines'[k] = es[j]
    BY <1>2
  <2>3. Stores(k, m, p)'
    BY <1>4, <2>1, <2>2 DEF Stores, PartEntry
  <2>4. QED
    BY <2>2, <2>3
<1>8. QED
    BY <1>1, <1>6, <1>7

\* ------------------------------------------------- the invariant is inductive

(* A sequence that is not empty and no longer than one has length one. *)
LEMMA OneAtMost ==
    ASSUME NEW S, NEW q \in Seq(S), q # <<>>, Len(q) <= 1
    PROVE  Len(q) = 1
<1>1. Len(q) # 0
    BY EmptySeq
<1>2. Len(q) \in Nat
    OBVIOUS
<1>3. QED
    BY <1>1, <1>2

(* A sequence of length one is not empty. *)
LEMMA NotEmpty ==
    ASSUME NEW S, NEW q \in Seq(S), Len(q) = 1
    PROVE  q # <<>>
    BY EmptySeq

(* Something is in a sequence to which something was added. *)
LEMMA AppendFills ==
    ASSUME NEW S, NEW q \in Seq(S), NEW e \in S
    PROVE  Append(q, e) # <<>>
<1>1. Append(q, e) \in Seq(S) /\ Len(Append(q, e)) = Len(q) + 1 /\ Len(q) \in Nat
    OBVIOUS
<1>2. Len(Append(q, e)) # 0
    BY <1>1
<1>3. QED
    BY <1>1, <1>2, EmptySeq

(* Replacing the only element keeps type and length. *)
LEMMA OneReplaced ==
    ASSUME NEW S, NEW q \in Seq(S), Len(q) = 1, NEW r \in S
    PROVE  /\ [q EXCEPT ![1] = r] \in Seq(S)
           /\ Len([q EXCEPT ![1] = r]) = 1
<1>1. 1 \in 1..Len(q)
    OBVIOUS
<1>2. QED
    BY <1>1, ExceptSeq

(* A queue that is not empty holds one batch, whose entries are entries. *)
LEMMA QueueFacts ==
    ASSUME IInv, queue # <<>>
    PROVE  /\ Len(queue) = 1 /\ Head(queue) = queue[1] /\ Tail(queue) = <<>>
           /\ Head(queue) \in Batch
           /\ BatchEntries(Head(queue)) \in Seq(Entry)
<1>1. queue \in Seq(Batch) /\ Len(queue) <= 1 /\ persisted \in Nat
    BY DEF IInv, TypeOK, QueueShape
<1>2. Len(queue) = 1
    BY <1>1, OneAtMost
<1>3. Head(queue) = queue[1] /\ Tail(queue) = <<>> /\ Head(queue) \in Batch
  <2>1. Tail(queue) \in Seq(Batch) /\ Len(Tail(queue)) = 0
    BY <1>1, <1>2
  <2>2. Tail(queue) = <<>>
    BY <2>1, EmptySeq
  <2>3. QED
    BY <1>1, <1>2, <2>2
<1>4. /\ queue[1].first = persisted + 1
      /\ persisted <= queue[1].last /\ queue[1].last <= Len(messages)
    BY DEF IInv, QueueShape
<1>5. queue[1].first \in Nat /\ queue[1].last \in Nat
    BY <1>3 DEF Batch
<1>6. BatchEntries(Head(queue)) \in Seq(Entry)
    BY <1>1, <1>3, <1>4, <1>5, BatchTyped DEF IInv
<1>7. QED
    BY <1>2, <1>3, <1>6

(* What is pending is a batch of entries. *)
LEMMA PendingTyped ==
    ASSUME TypeOK, Running, persisted <= Len(messages), NEW b \in BOOLEAN
    PROVE  Pending(b) \in Batch /\ BatchEntries(Pending(b)) \in Seq(Entry)
<1>1. active \in Turn /\ persisted \in Nat /\ messages \in Seq(Message)
    BY DEF TypeOK
<1>2. Pending(b) \in Batch
    BY <1>1 DEF Pending, Batch, Turn
<1>3. /\ 1 <= Pending(b).first /\ Pending(b).first <= Pending(b).last + 1
      /\ Pending(b).last <= Len(messages)
    BY <1>1 DEF Pending
<1>4. QED
    BY <1>2, <1>3, BatchTyped

\* The conjuncts that speak of the run alone.
Shape == TypeOK /\ SyncShape /\ QueueShape /\ Settled /\ NoGap

(* A flushed batch leaves the queue empty and moves the cursor to its end. *)
LEMMA FlushCommitsKeeps ==
    ASSUME IInv, FlushCommits
    PROVE  IInv' /\ Grown(lines, lines')
<1> DEFINE b == queue[1]
           es == EntriesOf(messages, b.turn, persisted + 1, b.last)
           z  == IF b.failed THEN <<FailureEntry(b.turn)>> ELSE <<>>
<1>1. /\ Head(queue) = b /\ Tail(queue) = <<>> /\ b \in Batch
      /\ BatchEntries(b) \in Seq(Entry)
    BY QueueFacts DEF FlushCommits
<1>2. /\ persisted \in Nat /\ messages \in Seq(Message)
      /\ b.first = persisted + 1 /\ persisted <= b.last /\ b.last \in Nat
      /\ b.last <= Len(messages) /\ b.turn \in RunTurns
    BY <1>1 DEF IInv, TypeOK, QueueShape, FlushCommits, Batch
<1>3. persisted' = b.last /\ messages' = messages /\ queue' = <<>>
  <2>1. persisted' = persisted + ((b.last + 1) - b.first)
    BY <1>1 DEF FlushCommits
  <2> HIDE DEF b
  <2>2. persisted' = b.last
    BY <1>2, <2>1
  <2>3. QED
    BY <1>1, <2>2 DEF FlushCommits
<1>4. /\ SessionTypeOK' /\ Grown(lines, lines')
      /\ lines' = lines \o BatchEntries(b)
    BY <1>1, AppendGrows DEF FlushCommits, IInv, TypeOK
<1>5. lines' = lines \o (es \o z)
    BY <1>2, <1>4 DEF BatchEntries
<1>6. es \in Seq(Entry) /\ \A m \in (persisted + 1)..b.last, p \in 1..Parts :
          \E j \in DOMAIN es : es[j] = PartEntry(messages, b.turn, m, p)
    BY <1>2, EntriesBehind, TurnsTyped
<1>7. z \in Seq(Entry)
  <2>1. b.turn \in Nat
    BY <1>1 DEF Batch
  <2>2. FailureEntry(b.turn) \in Entry
    BY <2>1 DEF FailureEntry, Entry, EntryKinds, Parts
  <2>3. QED
    BY <2>2
<1>8. AckedIsDurable'
  <2> HIDE DEF es, z, b
  <2>1. QED
    BY <1>2, <1>3, <1>5, <1>6, <1>7, AckedFollows
<1>9. Shape'
  <2> HIDE DEF b
  <2>1. TypeOK'
    BY <1>2, <1>3, <1>4 DEF FlushCommits, IInv, TypeOK
  <2>2. SyncShape'
    BY <1>3 DEF FlushCommits, IInv, SyncShape, Running, RunTurns
  <2>3. QueueShape'
    BY <1>2, <1>3 DEF QueueShape
  <2>4. Settled'
    BY <1>2, <1>3 DEF FlushCommits, IInv, TypeOK, Turn, QueueShape, Settled, Running, b
  <2>5. NoGap'
    BY <1>2, <1>3 DEF FlushCommits, IInv, NoGap, Gap, Running, b
  <2>6. QED
    BY <2>1, <2>2, <2>3, <2>4, <2>5 DEF Shape
<1>10. QED
    BY <1>4, <1>8, <1>9 DEF IInv, Shape

(* After a failed flush the same Turn goes on, or it has ended. *)
LEMMA FailedFlushTypes ==
    ASSUME active \in Turn, held \subseteq Nat, shown \subseteq Nat,
           Running => active.id # 0, sync = "start" => ~Running,
           sync \in {"event", "prepare"} => Running, AfterFailedFlush
    PROVE  /\ active' \in Turn /\ held' \subseteq Nat /\ shown' \subseteq Nat
           /\ Running' => /\ Running /\ active'.id = active.id
                          /\ active'.start = active.start
                          /\ active'.bound = active.bound
                          /\ sync # "complete"
           /\ ~Running' => ~Running \/ sync = "complete"
<1>1. NoTurn \in Turn /\ NoTurn.id = 0
    BY DEF NoTurn, Turn
<1>2. held' \subseteq Nat /\ shown' \subseteq Nat
    BY DEF AfterFailedFlush, Release, KeepEvents, ReleaseIf
<1>3. CASE sync = "start" /\ UNCHANGED active
    BY <1>2, <1>3 DEF Running
<1>4. CASE /\ sync \in {"event", "prepare"}
           /\ active' \in Turn /\ active'.id = active.id
           /\ active'.start = active.start /\ active'.bound = active.bound
    BY <1>1, <1>2, <1>4 DEF Running
<1>5. CASE sync = "complete" /\ active' = NoTurn
    BY <1>1, <1>2, <1>5 DEF Running
<1>6. QED
    BY <1>3, <1>4, <1>5 DEF AfterFailedFlush, Turn

(* A failed flush keeps its batch, whatever the call then does. *)
LEMMA FlushStopsKeeps ==
    ASSUME IInv, FlushStops
    PROVE  IInv' /\ Grown(lines, lines')
<1>1. /\ Len(queue) = 1 /\ Head(queue) = queue[1] /\ Head(queue) \in Batch
      /\ queue \in Seq(Batch)
      /\ BatchEntries(Head(queue)) \in Seq(Entry)
    BY QueueFacts DEF FlushStops, IInv, TypeOK
<1>2. /\ SessionTypeOK' /\ Grown(lines, lines')
      /\ queue' \in Seq(Batch) /\ Len(queue') = 1
      /\ queue'[1].turn = queue[1].turn
      /\ queue'[1].first = queue[1].first /\ queue'[1].last = queue[1].last
  <2>1. CASE UNCHANGED <<sessionVars, queue>>
    <3>1. SessionTypeOK' /\ lines' = lines /\ lines \in Seq(Entry)
      BY <2>1 DEF IInv, TypeOK, SessionTypeOK, sessionVars
    <3>2. QED
      BY <1>1, <2>1, <3>1, GrownNot
  <2>2. ASSUME NEW verdict \in {"not_durable", "unknown"},
               PersistMessages(BatchEntries(Head(queue)), verdict),
               queue' = [queue EXCEPT ![1].blocked = (verdict = "unknown")]
        PROVE  /\ SessionTypeOK' /\ Grown(lines, lines')
               /\ queue' \in Seq(Batch) /\ Len(queue') = 1
               /\ queue'[1].turn = queue[1].turn
               /\ queue'[1].first = queue[1].first
               /\ queue'[1].last = queue[1].last
    <3>1. SessionTypeOK' /\ Grown(lines, lines')
      BY <1>1, <2>2, AppendGrows DEF IInv, TypeOK
    <3>2. queue' \in Seq(Batch) /\ Len(queue') = 1
      <4>1. queue[1] \in Batch /\ (verdict = "unknown") \in BOOLEAN
        BY <1>1
      <4>2. [queue[1] EXCEPT !.blocked = (verdict = "unknown")] \in Batch
        BY <4>1 DEF Batch
      <4>3. queue' = [queue EXCEPT ![1] =
                        [queue[1] EXCEPT !.blocked = (verdict = "unknown")]]
        BY <1>1, <2>2
      <4>4. \A r \in Batch : /\ [queue EXCEPT ![1] = r] \in Seq(Batch)
                             /\ Len([queue EXCEPT ![1] = r]) = 1
        BY <1>1, OneReplaced
      <4>5. QED
        BY <4>2, <4>3, <4>4
    <3>3. /\ queue'[1].turn = queue[1].turn
          /\ queue'[1].first = queue[1].first /\ queue'[1].last = queue[1].last
      BY <1>1, <2>2 DEF Batch
    <3>4. QED
      BY <3>1, <3>2, <3>3
  <2>3. QED
    BY <2>1, <2>2 DEF FlushStops
<1>3. queue # <<>> /\ queue' # <<>>
    BY <1>1, <1>2, NotEmpty
<1>4. /\ messages' = messages /\ persisted' = persisted /\ turns' = turns
      /\ sync' = "none" /\ sync # "none"
    BY DEF FlushStops
<1>5. /\ active' \in Turn /\ held' \subseteq Nat /\ shown' \subseteq Nat
    BY FailedFlushTypes DEF FlushStops, IInv, TypeOK, SyncShape
<1>6. /\ Running' => /\ Running /\ active'.id = active.id
                     /\ active'.start = active.start
                     /\ active'.bound = active.bound
                     /\ sync # "complete"
      /\ ~Running' => ~Running \/ sync = "complete"
    BY FailedFlushTypes DEF FlushStops, IInv, TypeOK, SyncShape
<1>7. AckedIsDurable'
    BY <1>2, <1>4, AckedStays DEF IInv, TypeOK, Continues
<1>8. TypeOK'
    BY <1>2, <1>4, <1>5 DEF IInv, TypeOK, Syncs
<1>9. SyncShape'
    BY <1>4, <1>6 DEF IInv, SyncShape, RunTurns
<1>10. QueueShape'
    BY <1>2, <1>3, <1>4, <1>6 DEF IInv, QueueShape, RunTurns
<1>11. Settled'
    BY <1>3, <1>4, <1>6 DEF IInv, Settled
<1>12. NoGap'
    BY <1>2, <1>3, <1>4, <1>6 DEF IInv, NoGap, Gap
<1>13. QED
    BY <1>2, <1>7, <1>8, <1>9, <1>10, <1>11, <1>12 DEF IInv

(* Everything newer than the cursor is appended at once. *)
LEMMA PersistPendingKeeps ==
    ASSUME IInv, PersistPending
    PROVE  IInv' /\ Grown(lines, lines')
<1> DEFINE b == Pending(FALSE)
           es == EntriesOf(messages, active.id, persisted + 1, Len(messages))
<1>1. /\ persisted \in Nat /\ messages \in Seq(Message) /\ active \in Turn
      /\ persisted <= Len(messages) /\ Running /\ active.bound
      /\ active.id \in RunTurns /\ active.start <= Len(messages)
      /\ active.id # 0 /\ queue = <<>> /\ lines \in Seq(Entry)
    BY DEF IInv, TypeOK, SessionTypeOK, QueueShape, SyncShape, PersistPending
<1>2. /\ messages' = messages /\ queue' = queue /\ turns' = turns
      /\ sync' = "none"
      /\ active' \in Turn /\ active'.id = active.id
      /\ active'.start = active.start /\ active'.bound = active.bound
    BY <1>1 DEF PersistPending, Turn
<1>3. persisted' = Len(messages)
    BY <1>1 DEF PersistPending
<1>4. SessionTypeOK' /\ Grown(lines, lines') /\ AckedIsDurable'
  <2>1. CASE persisted = Len(messages) /\ UNCHANGED sessionVars
    <3>1. SessionTypeOK' /\ Grown(lines, lines') /\ persisted' = persisted
      BY <1>1, <1>3, <2>1, GrownNot DEF IInv, TypeOK, SessionTypeOK, sessionVars
    <3>2. QED
      BY <1>1, <1>2, <3>1, AckedStays DEF Continues
  <2>2. CASE PersistMessages(BatchEntries(b), "durable")
    <3>1. b \in Batch /\ BatchEntries(b) \in Seq(Entry)
      BY <1>1, PendingTyped DEF IInv
    <3>2. /\ SessionTypeOK' /\ Grown(lines, lines')
          /\ lines' = lines \o BatchEntries(b)
      BY <2>2, <3>1, AppendGrows DEF IInv, TypeOK
    <3>3. es \in Seq(Entry) /\
          \A m \in (persisted + 1)..Len(messages), p \in 1..Parts :
            \E j \in DOMAIN es : es[j] = PartEntry(messages, active.id, m, p)
      <4> DEFINE last == Len(messages)
      <4>1. active.id \in Nat /\ last \in Nat
        BY <1>1, TurnsTyped
      <4>2. persisted <= last /\ last <= Len(messages)
        BY <1>1
      <4> HIDE DEF last
      <4>3. EntriesOf(messages, active.id, persisted + 1, last) \in Seq(Entry) /\
            \A m \in (persisted + 1)..last, p \in 1..Parts :
              \E j \in DOMAIN EntriesOf(messages, active.id, persisted + 1, last) :
                EntriesOf(messages, active.id, persisted + 1, last)[j]
                    = PartEntry(messages, active.id, m, p)
        BY <1>1, <4>1, <4>2, EntriesBehind
      <4>4. QED
        BY <4>3 DEF last
    <3>4. lines' = lines \o (es \o <<>>)
      BY <3>2 DEF BatchEntries, Pending
    <3>5. <<>> \in Seq(Entry) /\ Len(messages) \in Nat
      BY <1>1
    <3> HIDE DEF es
    <3>6. AckedIsDurable'
      BY <1>1, <1>2, <1>3, <3>3, <3>4, <3>5, AckedFollows
    <3>7. QED
      BY <3>2, <3>6
  <2>3. QED
    BY <2>1, <2>2 DEF PersistPending
<1>5. Running'
    BY <1>1, <1>2 DEF Running, NoTurn
<1>6. TypeOK'
    BY <1>1, <1>2, <1>3, <1>4 DEF IInv, TypeOK, Syncs, PersistPending, Release
<1>7. SyncShape'
    BY <1>1, <1>2, <1>5 DEF SyncShape, RunTurns
<1>8. QueueShape'
    BY <1>1, <1>2, <1>3 DEF QueueShape
<1>9. Settled'
    BY <1>1, <1>2, <1>3 DEF Settled
<1>10. NoGap'
    BY <1>1, <1>2, <1>5 DEF NoGap
<1>11. QED
    BY <1>4, <1>6, <1>7, <1>8, <1>9, <1>10 DEF IInv

\* ---------------------------------------- actions that leave the file alone

(* A step that writes nothing and moves no cursor. *)
LEMMA FileAlone ==
    ASSUME IInv, UNCHANGED <<sessionVars, persisted>>,
           messages' \in Seq(Message), Continues
    PROVE  SessionTypeOK' /\ Grown(lines, lines') /\ AckedIsDurable'
<1>1. SessionTypeOK' /\ Grown(lines, lines')
    BY GrownNot DEF sessionVars, IInv, TypeOK, SessionTypeOK
<1>2. QED
    BY <1>1, AckedStays

\* A Turn stays what it is while its phase changes.
SameTurn == /\ active' \in Turn /\ active'.id = active.id
            /\ active'.start = active.start
            /\ active'.bound = active.bound

(* The running Turn gets on without touching the queue, and the messages of
   the run stay. *)
LEMMA TurnMovesOn ==
    ASSUME IInv, Running, sync = "none",
           UNCHANGED <<sessionVars, turns, persisted, queue>>,
           messages' \in Seq(Message), Continues, SameTurn,
           sync' \in {"none", "event", "prepare"},
           sync' # "none" => active.bound,
           queue = <<>> /\ active.bound /\ active.phase = "begin" =>
                active'.phase = "begin",
           held' \subseteq Nat, shown' \subseteq Nat
    PROVE  IInv' /\ Grown(lines, lines')
<1>1. SessionTypeOK' /\ Grown(lines, lines') /\ AckedIsDurable'
    BY FileAlone
<1>2. /\ messages \in Seq(Message) /\ active.id # 0
      /\ active.start <= Len(messages) /\ active.id \in RunTurns
    BY DEF IInv, TypeOK, SyncShape
<1>3. Running' /\ RunTurns \subseteq RunTurns' /\ Len(messages) <= Len(messages')
  <2>1. Running'
    BY <1>2 DEF SameTurn, Running, NoTurn
  <2>2. RunTurns \subseteq RunTurns'
    BY <1>2, TurnsStay
  <2>3. Len(messages) <= Len(messages')
    <3>1. Len(messages) \in Nat /\ Len(messages') \in Nat
      BY <1>2
    <3>2. CASE Len(messages) = 0
      BY <3>1, <3>2
    <3>3. CASE Len(messages) # 0
      <4>1. Len(messages) \in 1..Len(messages)
        BY <3>1, <3>3
      <4>2. Len(messages) \in 1..Len(messages')
        BY <4>1 DEF Continues
      <4>3. QED
        BY <3>1, <4>2
    <3>4. QED
      BY <3>2, <3>3
  <2>4. QED
    BY <2>1, <2>2, <2>3
<1>4. TypeOK'
    BY <1>1 DEF IInv, TypeOK, SameTurn, Syncs
<1>5. SyncShape'
  <2>1. active.start \in Nat /\ Len(messages) \in Nat /\ Len(messages') \in Nat
    BY <1>2 DEF IInv, TypeOK, Turn
  <2>2. active'.start <= Len(messages')
    BY <1>2, <1>3, <2>1 DEF SameTurn
  <2>3. QED
    BY <1>2, <1>3, <2>2 DEF SyncShape, SameTurn
<1>6. QueueShape'
  <2>1. Len(messages) \in Nat /\ Len(messages') \in Nat /\ persisted \in Nat
    BY <1>2 DEF IInv, TypeOK
  <2>2. persisted' <= Len(messages')
    BY <1>3, <2>1 DEF IInv, QueueShape
  <2>3. queue # <<>> => queue[1].last <= Len(messages')
    <3>1. SUFFICES ASSUME queue # <<>> PROVE queue[1].last <= Len(messages')
      OBVIOUS
    <3>2. queue[1] \in Batch
      BY <3>1, QueueFacts
    <3>3. queue[1].last \in Nat
      BY <3>2 DEF Batch
    <3>4. QED
      BY <1>3, <2>1, <3>1, <3>3 DEF IInv, QueueShape
  <2>4. QED
    BY <1>3, <2>2, <2>3 DEF IInv, QueueShape, SameTurn
<1>7. Settled'
    BY <1>3 DEF IInv, Settled, SameTurn
<1>8. NoGap'
    BY <1>3 DEF IInv, NoGap, SameTurn
<1>9. QED
    BY <1>1, <1>4, <1>5, <1>6, <1>7, <1>8 DEF IInv

(* Messages put behind the others leave those alone. *)
LEMMA MessagesContinue ==
    ASSUME messages \in Seq(Message), NEW more \in Seq(Message),
           messages' = messages \o more
    PROVE  messages' \in Seq(Message) /\ Continues
    BY DEF Continues

(* A message of the active Turn is a message. *)
LEMMA MessageTyped ==
    ASSUME active \in Turn, NEW kind \in MessageKinds
    PROVE  [kind |-> kind, turn |-> active.id] \in Message
    BY DEF Turn, Message

(* The steps of the Turn between its synchronous calls. *)
LEMMA TurnStepsKeep ==
    ASSUME IInv, BeginTurn \/ ApplySteering \/ PrepareRequest \/ CloseToolBatch
                 \/ Answer \/ StopTurn \/ PauseTurn
    PROVE  IInv' /\ Grown(lines, lines')
<1>1. /\ messages \in Seq(Message) /\ active \in Turn
      /\ held \subseteq Nat /\ shown \subseteq Nat /\ Len(messages) \in Nat
    BY DEF IInv, TypeOK
<1>2. Running /\ sync = "none"
    BY DEF BeginTurn, ApplySteering, PrepareRequest, CloseToolBatch, Answer,
       StopTurn, PauseTurn, Quiet
<1>3. ASSUME NEW m \in Nat, EmitUserMessage(m)
      PROVE  /\ SameTurn /\ sync' \in {"none", "event"}
             /\ sync' # "none" => active.bound
             /\ active.bound => active' = active
             /\ held' \subseteq Nat /\ shown' \subseteq Nat
    BY <1>1, <1>2, <1>3 DEF EmitUserMessage, SameTurn, Turn
<1>4. ASSUME UNCHANGED messages
      PROVE  messages' \in Seq(Message) /\ Continues
    BY <1>1, <1>4 DEF Continues
<1>5. CASE BeginTurn
  <2>1. EmitUserMessage(Len(messages)) /\ UNCHANGED <<sessionVars, turns, messages, persisted, queue>>
    BY <1>5 DEF BeginTurn
  <2>2. QED
    BY <1>1, <1>2, <1>3, <1>4, <2>1, TurnMovesOn
<1>6. CASE ApplySteering
  <2>1. /\ EmitUserMessage(Len(messages) + 1)
        /\ UNCHANGED <<sessionVars, turns, persisted, queue>>
        /\ messages' = Append(messages, [kind |-> "text", turn |-> active.id])
    BY <1>6 DEF ApplySteering
  <2>2. [kind |-> "text", turn |-> active.id] \in Message
    BY <1>1, MessageTyped DEF MessageKinds
  <2>3. messages' \in Seq(Message) /\ Continues
    BY <1>1, <2>1, <2>2 DEF Continues
  <2>4. Len(messages) + 1 \in Nat
    BY <1>1
  <2>5. QED
    BY <1>2, <1>3, <2>1, <2>3, <2>4, TurnMovesOn
<1>7. CASE PrepareRequest
  <2>1. /\ SameTurn /\ sync' \in {"none", "prepare"}
        /\ sync' # "none" => active.bound
        /\ active.phase = "prepare"
    BY <1>1, <1>2, <1>7 DEF PrepareRequest, SameTurn, Turn
  <2>2. UNCHANGED <<sessionVars, turns, messages, persisted, queue, held, shown>>
    BY <1>7 DEF PrepareRequest
  <2>3. QED
    BY <1>1, <1>2, <1>4, <2>1, <2>2, TurnMovesOn
<1>8. CASE CloseToolBatch
  <2>1. /\ messages' = messages \o <<[kind |-> "call", turn |-> active.id],
                                     [kind |-> "result", turn |-> active.id]>>
        /\ active' = [active EXCEPT !.phase = "prepare"]
        /\ active.phase = "call"
        /\ UNCHANGED <<sessionVars, turns, persisted, queue, sync, held, shown>>
    BY <1>8 DEF CloseToolBatch
  <2>2. /\ [kind |-> "call", turn |-> active.id] \in Message
        /\ [kind |-> "result", turn |-> active.id] \in Message
    BY <1>1, MessageTyped DEF MessageKinds
  <2>3. <<[kind |-> "call", turn |-> active.id],
          [kind |-> "result", turn |-> active.id]>> \in Seq(Message)
    BY <2>2
  <2>4. messages' \in Seq(Message) /\ Continues
    BY <1>1, <2>1, <2>3, MessagesContinue
  <2>5. SameTurn
    BY <1>1, <2>1 DEF SameTurn, Turn
  <2>6. QED
    BY <1>1, <1>2, <2>1, <2>4, <2>5, TurnMovesOn
<1>9. CASE Answer
  <2>1. /\ messages' = Append(messages, [kind |-> "text", turn |-> active.id])
        /\ active' = [active EXCEPT !.phase = "ended"]
        /\ active.phase = "call"
        /\ UNCHANGED <<sessionVars, turns, persisted, queue, sync, held, shown>>
    BY <1>9 DEF Answer
  <2>2. [kind |-> "text", turn |-> active.id] \in Message
    BY <1>1, MessageTyped DEF MessageKinds
  <2>3. messages' \in Seq(Message) /\ Continues
    BY <1>1, <2>1, <2>2 DEF Continues
  <2>4. SameTurn
    BY <1>1, <2>1 DEF SameTurn, Turn
  <2>5. QED
    BY <1>1, <1>2, <2>1, <2>3, <2>4, TurnMovesOn
<1>10. CASE StopTurn
  <2>1. /\ SameTurn /\ active.phase # "begin"
        /\ UNCHANGED <<sessionVars, turns, messages, persisted, queue, sync,
                       held, shown>>
    BY <1>1, <1>10 DEF StopTurn, SameTurn, Turn
  <2>2. QED
    BY <1>1, <1>2, <1>4, <2>1, TurnMovesOn
<1>11. CASE PauseTurn
  <2>1. /\ SameTurn /\ active.phase # "begin"
        /\ held' \subseteq Nat /\ shown' \subseteq Nat
        /\ UNCHANGED <<sessionVars, turns, messages, persisted, queue, active, sync>>
    BY <1>1, <1>11 DEF PauseTurn, SameTurn, Release
  <2>2. QED
    BY <1>1, <1>2, <1>4, <2>1, TurnMovesOn
<1>12. QED
    BY <1>5, <1>6, <1>7, <1>8, <1>9, <1>10, <1>11

\* ---------------------------------------------- between Turns, and the Session

(* Requesting and refusing a Turn change no data. *)
LEMMA RequestsKeep ==
    ASSUME IInv, RequestTurn \/ RefuseTurn
    PROVE  IInv' /\ Grown(lines, lines')
<1>1. /\ UNCHANGED <<sessionVars, turns, messages, persisted, queue, active,
                      held, shown>>
      /\ ~Running /\ sync' \in {"none", "start"}
    BY DEF RequestTurn, RefuseTurn, Idle, IInv, SyncShape
<1>2. messages \in Seq(Message) /\ messages' \in Seq(Message) /\ Continues
    BY <1>1 DEF Continues, IInv, TypeOK
<1>3. SessionTypeOK' /\ Grown(lines, lines') /\ AckedIsDurable'
    BY <1>1, <1>2, FileAlone
<1>4. TypeOK'
    BY <1>1, <1>3 DEF IInv, TypeOK, Syncs
<1>5. SyncShape' /\ QueueShape' /\ Settled' /\ NoGap'
    BY <1>1 DEF IInv, SyncShape, QueueShape, Settled, NoGap, Gap, Running, RunTurns
<1>6. QED
    BY <1>3, <1>4, <1>5 DEF IInv

(* A new Turn begins with the queue empty and one message of its own. *)
LEMMA StartTurnKeeps ==
    ASSUME IInv, StartTurn
    PROVE  IInv' /\ Grown(lines, lines')
<1> DEFINE m == [kind |-> "text", turn |-> turns + 1]
<1>1. /\ messages \in Seq(Message) /\ turns \in Nat /\ persisted \in Nat
      /\ persisted <= Len(messages) /\ Len(messages) \in Nat
      /\ queue = <<>> /\ ~Running
    BY DEF IInv, TypeOK, QueueShape, SyncShape, StartTurn
<1>2. /\ messages' = Append(messages, m) /\ turns' = turns + 1
      /\ sync' = "none" /\ UNCHANGED <<sessionVars, persisted, queue, held, shown>>
      /\ active' = [id |-> turns + 1, start |-> Len(messages),
                    bound |-> (writer = "open"), failed |-> FALSE,
                    phase |-> "begin"]
    BY DEF StartTurn
<1>3. m \in Message
    BY <1>1 DEF Message, MessageKinds
<1>4. /\ messages' \in Seq(Message) /\ Continues
      /\ Len(messages') = Len(messages) + 1
      /\ messages'[Len(messages) + 1] = m
    BY <1>1, <1>2, <1>3 DEF Continues
<1>5. SessionTypeOK' /\ Grown(lines, lines') /\ AckedIsDurable'
    BY <1>2, <1>4, FileAlone
<1>6. /\ active' \in Turn /\ active'.id = turns + 1 /\ active'.id # 0
      /\ active'.start = Len(messages) /\ Running'
      /\ ~Sessionless => active'.bound
      /\ active'.phase = "begin"
  <2>1. active' \in Turn /\ active'.id = turns + 1 /\ active'.start = Len(messages)
    BY <1>1, <1>2 DEF Turn
  <2>2. active'.id # 0 /\ NoTurn.id = 0
    BY <1>1, <2>1 DEF NoTurn
  <2>3. ~Sessionless => active'.bound
    <3>1. ~Sessionless => writer = "open"
      BY DEF StartTurn, IInv, TypeOK, SessionTypeOK, Writers
    <3>2. active'.bound = (writer = "open")
      BY <1>2
    <3>3. QED
      BY <3>1, <3>2
  <2>4. active'.phase = "begin"
    BY <1>2
  <2>5. QED
    BY <2>1, <2>2, <2>3, <2>4 DEF Running
<1>7. active'.id \in RunTurns'
  <2>1. Len(messages) + 1 \in DOMAIN messages'
    BY <1>1, <1>4
  <2>2. messages'[Len(messages) + 1].turn = turns + 1
    BY <1>4
  <2>3. QED
    BY <1>6, <2>1, <2>2 DEF RunTurns
<1>8. TypeOK'
    BY <1>1, <1>2, <1>4, <1>5, <1>6 DEF IInv, TypeOK, Syncs
<1>9. SyncShape'
    BY <1>1, <1>2, <1>4, <1>6, <1>7 DEF SyncShape
<1>10. QueueShape'
    BY <1>1, <1>2, <1>4 DEF QueueShape
<1>11. Settled'
    BY <1>1, <1>2, <1>6 DEF IInv, Settled, NoGap, Gap
<1>12. NoGap'
    BY <1>2, <1>6 DEF NoGap
<1>13. QED
    BY <1>5, <1>8, <1>9, <1>10, <1>11, <1>12 DEF IInv

(* A Turn that has ended leaves an empty queue behind. *)
LEMMA FinishTurnKeeps ==
    ASSUME IInv, FinishTurn
    PROVE  IInv' /\ Grown(lines, lines')
<1>1. /\ UNCHANGED <<sessionVars, turns, messages, persisted, queue>>
      /\ active' = NoTurn /\ sync' = "none" /\ sync = "complete"
      /\ held' = {} /\ shown' = shown \union held
    BY DEF FinishTurn, Release
<1>2. messages \in Seq(Message) /\ messages' \in Seq(Message) /\ Continues
    BY <1>1 DEF Continues, IInv, TypeOK
<1>3. SessionTypeOK' /\ Grown(lines, lines') /\ AckedIsDurable'
    BY <1>1, <1>2, FileAlone
<1>4. NoTurn \in Turn /\ ~Running'
    BY <1>1 DEF NoTurn, Turn, Running
<1>5. TypeOK'
    BY <1>1, <1>3, <1>4 DEF IInv, TypeOK, Syncs
<1>6. SyncShape'
    BY <1>1, <1>4 DEF SyncShape
<1>7. QueueShape'
    BY <1>1, <1>4 DEF IInv, QueueShape, RunTurns
<1>8. Settled'
    BY <1>4 DEF Settled
<1>9. NoGap'
    BY <1>1, <1>4 DEF IInv, NoGap, Gap
<1>10. QED
    BY <1>3, <1>5, <1>6, <1>7, <1>8, <1>9 DEF IInv

(* Opening and closing a Session leave the run alone. *)
LEMMA SessionStepsKeep ==
    ASSUME IInv, UseSession \/ ReopenInTurn
    PROVE  IInv' /\ Grown(lines, lines')
<1>1. UNCHANGED runVars /\ SessionTypeOK' /\ lines' = lines
  <2>1. CASE UseSession
    BY <2>1, SessionKeeps DEF UseSession, IInv, TypeOK
  <2>2. CASE ReopenInTurn
    BY <2>2, SessionKeeps DEF ReopenInTurn, IInv, TypeOK, SessionTypeOK
  <2>3. QED
    BY <2>1, <2>2
<1>2. messages \in Seq(Message) /\ messages' \in Seq(Message) /\ Continues
    BY <1>1 DEF Continues, IInv, TypeOK, runVars
<1>3. Grown(lines, lines') /\ AckedIsDurable'
    BY <1>1, <1>2, GrownNot, AckedStays DEF IInv, TypeOK, SessionTypeOK, runVars
<1>4. TypeOK'
    BY <1>1 DEF IInv, TypeOK, runVars
<1>5. SyncShape' /\ QueueShape' /\ Settled' /\ NoGap'
    BY <1>1 DEF IInv, SyncShape, QueueShape, Settled, NoGap, Gap, Running,
       RunTurns, runVars
<1>6. QED
    BY <1>3, <1>4, <1>5 DEF IInv

(* What a crash may have been writing is a batch of entries. *)
LEMMA InFlightTyped ==
    ASSUME IInv
    PROVE  InFlight \in Seq(Entry)
<1>1. <<>> \in Seq(Entry)
    OBVIOUS
<1>2. queue # <<>> => BatchEntries(Head(queue)) \in Seq(Entry)
    BY QueueFacts
<1>3. sync \in {"event", "prepare"} =>
        BatchEntries(Pending(FALSE)) \in Seq(Entry)
    BY PendingTyped DEF IInv, QueueShape, SyncShape
<1>4. QED
    BY <1>1, <1>2, <1>3 DEF InFlight

(* A new run takes over with nothing acknowledged and nothing queued. *)
LEMMA CrashKeeps ==
    ASSUME IInv, Crash
    PROVE  IInv' /\ Grown(lines, lines')
<1>1. <<>> \in Seq(Entry) /\ <<>> \in Seq(Message) /\ <<>> \in Seq(Batch)
    OBVIOUS
<1>2. SessionTypeOK' /\ Grown(lines, lines')
    BY <1>1, InFlightTyped, CrashGrows DEF Crash, IInv, TypeOK
<1>3. /\ messages' = <<>> /\ persisted' = 0 /\ queue' = <<>> /\ turns' = turns
      /\ active' = NoTurn /\ sync' = "none" /\ held' = {} /\ shown' = {}
    BY DEF Crash
<1>4. NoTurn \in Turn /\ ~Running'
    BY <1>3 DEF NoTurn, Turn, Running
<1>5. TypeOK'
    BY <1>1, <1>2, <1>3, <1>4 DEF IInv, TypeOK, Syncs
<1>6. SyncShape' /\ QueueShape' /\ Settled' /\ NoGap' /\ AckedIsDurable'
    BY <1>3, <1>4 DEF SyncShape, QueueShape, Settled, NoGap, Gap, AckedIsDurable
<1>7. QED
    BY <1>2, <1>5, <1>6 DEF IInv

\* ------------------------------------------------------------ queueing a batch

(* A batch that is merged with the one that waits for the same Turn. *)
LEMMA MergeTyped ==
    ASSUME NEW old \in Batch, NEW b \in Batch
    PROVE  /\ Merge(old, b) \in Batch
           /\ Extends(old, b) =>
                /\ Merge(old, b).first = b.first /\ Merge(old, b).last = b.last
                /\ Merge(old, b).turn = b.turn
           /\ ~Extends(old, b) => Merge(old, b) = old
    BY DEF Merge, Batch

(* An append that failed leaves one batch, right behind the cursor. *)
LEMMA PersistFailsKeeps ==
    ASSUME IInv, PersistFails
    PROVE  IInv' /\ Grown(lines, lines')
<1>1. /\ messages \in Seq(Message) /\ persisted \in Nat /\ active \in Turn
      /\ Len(messages) \in Nat /\ persisted < Len(messages)
      /\ Running /\ active.bound /\ active.id # 0 /\ active.id \in RunTurns
      /\ active.start <= Len(messages) /\ queue = <<>>
    BY DEF IInv, TypeOK, SyncShape, PersistFails
<1>2. PICK verdict \in {"not_durable", "unknown"} :
          /\ PersistMessages(BatchEntries(Pending(FALSE)), verdict)
          /\ queue' = Enqueue(Pending(verdict = "unknown"))
    BY DEF PersistFails
<1> DEFINE b == Pending(verdict = "unknown")
<1>3. /\ b \in Batch /\ b.first = persisted + 1 /\ b.last = Len(messages)
      /\ b.turn = active.id /\ BatchEntries(Pending(FALSE)) \in Seq(Entry)
  <2>1. /\ \A blocked \in BOOLEAN : Pending(blocked) \in Batch
        /\ BatchEntries(Pending(FALSE)) \in Seq(Entry)
    <3>1. TypeOK /\ persisted <= Len(messages)
      BY DEF IInv, QueueShape
    <3>2. \A blocked \in BOOLEAN : Pending(blocked) \in Batch
      BY <1>1, <3>1, PendingTyped
    <3>3. BatchEntries(Pending(FALSE)) \in Seq(Entry)
      BY <1>1, <3>1, PendingTyped
    <3>4. QED
      BY <3>2, <3>3
  <2>2. b \in Batch
    BY <2>1
  <2>3. b.first = persisted + 1 /\ b.last = Len(messages) /\ b.turn = active.id
    BY DEF Pending
  <2>4. QED
    BY <2>1, <2>2, <2>3
<1>4. SessionTypeOK' /\ Grown(lines, lines')
    BY <1>2, <1>3, AppendGrows DEF IInv, TypeOK
<1>5. queue' = <<b>>
  <2>1. queue' = Enqueue(b)
    BY <1>2
  <2> HIDE DEF b
  <2>2. Holds(b)
    BY <1>1, <1>3 DEF Holds
  <2>3. ~ \E i \in DOMAIN queue : queue[i].turn = b.turn
    BY <1>1
  <2>4. queue' = Append(queue, b)
    BY <2>1, <2>2, <2>3 DEF Enqueue
  <2>5. QED
    BY <1>1, <2>4
<1> HIDE DEF b
<1>6. /\ queue' \in Seq(Batch) /\ Len(queue') = 1 /\ queue'[1] = b
      /\ queue' # <<>>
    BY <1>3, <1>5
<1>7. /\ UNCHANGED <<turns, messages, persisted, held, shown>>
      /\ sync' = "none" /\ SameTurn
    BY <1>1 DEF PersistFails, SameTurn, Turn
<1>8. Running'
    BY <1>1, <1>7 DEF Running, NoTurn, SameTurn
<1>9. AckedIsDurable'
    BY <1>1, <1>4, <1>7, AckedStays DEF Continues
<1>10. TypeOK'
    BY <1>1, <1>4, <1>6, <1>7 DEF IInv, TypeOK, Syncs, SameTurn
<1>11. SyncShape'
    BY <1>1, <1>7 DEF SyncShape, SameTurn, RunTurns
<1>12. QueueShape'
    BY <1>1, <1>3, <1>6, <1>7 DEF QueueShape, SameTurn, RunTurns
<1>13. Settled'
    BY <1>1, <1>6, <1>7 DEF IInv, Settled, SameTurn
<1>14. NoGap'
    BY <1>1, <1>7, <1>8 DEF NoGap, SameTurn
<1>15. QED
    BY <1>4, <1>9, <1>10, <1>11, <1>12, <1>13, <1>14 DEF IInv

(* What the end of a Turn queues: nothing, the Turn's tail, or the batch that
   waits extended by the tail. *)
LEMMA TailQueued ==
    ASSUME IInv, CompleteTurn, active.bound
    PROVE  \/ queue' = <<>> /\ persisted = Len(messages)
           \/ \E b \in Batch :
                /\ queue' = <<b>>
                /\ b.first = persisted + 1
                /\ persisted <= b.last /\ b.last <= Len(messages)
                /\ active.start <= b.last
                /\ ~Sessionless => b.last = Len(messages)
                /\ b.turn = active.id
<1> DEFINE t == [turn |-> active.id, first |-> TailStart, last |-> Len(messages),
                 blocked |-> FALSE, terminal |-> TRUE, failed |-> active.failed]
<1>1. /\ messages \in Seq(Message) /\ persisted \in Nat /\ active \in Turn
      /\ active.start \in Nat /\ active.start <= Len(messages)
      /\ Len(messages) \in Nat /\ persisted <= Len(messages)
      /\ queue \in Seq(Batch) /\ Running /\ active.phase = "ended"
    BY DEF IInv, TypeOK, Turn, SyncShape, QueueShape, CompleteTurn, Quiet
<1>2. TailStart \in Nat /\ active.start <= persisted => TailStart = persisted + 1
    BY <1>1 DEF TailStart
<1>3. TailStart \in Nat
    BY <1>1 DEF TailStart
<1>4. t \in Batch
    BY <1>1, <1>3 DEF Batch, Turn
<1>5. queue' = Enqueue(t)
    BY DEF CompleteTurn
<1>6. /\ t.turn = active.id /\ t.first = TailStart /\ t.last = Len(messages)
      /\ t.failed = active.failed
    OBVIOUS
<1> HIDE DEF t
<1>7. CASE queue = <<>>
  <2>1. active.start <= persisted /\ TailStart = persisted + 1
    BY <1>1, <1>2, <1>3, <1>7 DEF IInv, Settled
  <2>2. CASE ~Holds(t) /\ ~t.failed
    <3>1. queue' = <<>>
      BY <1>5, <1>7, <2>2 DEF Enqueue
    <3>2. persisted = Len(messages)
      BY <1>1, <1>6, <2>1, <2>2 DEF Holds
    <3>3. QED
      BY <3>1, <3>2
  <2>3. CASE Holds(t) \/ t.failed
    <3>1. queue' = <<t>>
      BY <1>5, <1>7, <2>3 DEF Enqueue
    <3>2. QED
      BY <1>1, <1>4, <1>6, <2>1, <3>1
  <2>4. QED
    BY <2>2, <2>3
<1>8. CASE queue # <<>>
  <2> DEFINE old == queue[1]
  <2>1. /\ old \in Batch /\ Len(queue) = 1 /\ old.first = persisted + 1
        /\ persisted <= old.last /\ old.last <= Len(messages)
        /\ old.turn = active.id /\ active.start <= old.last
        /\ old.last \in Nat
    <3>1. old \in Batch /\ Len(queue) = 1
      BY <1>8, QueueFacts
    <3>2. old.last \in Nat
      BY <3>1 DEF Batch
    <3>3. QED
      BY <1>1, <1>8, <3>1, <3>2 DEF IInv, QueueShape
  <2>2. queue = <<old>>
    BY <1>1, <2>1
  <2> HIDE DEF old
  <2>3. CASE ~Holds(t) /\ ~t.failed
    <3>1. queue' = <<old>>
      BY <1>5, <2>2, <2>3 DEF Enqueue
    <3>2. ~Sessionless => old.last = Len(messages)
      <4>1. SUFFICES ASSUME ~Sessionless PROVE old.last = Len(messages)
        OBVIOUS
      <4>2. TailStart = persisted + 1
        BY <1>1, <1>2, <1>3, <4>1 DEF IInv, Settled
      <4>3. QED
        BY <1>1, <1>6, <2>1, <2>3, <4>2 DEF Holds
    <3>3. QED
      BY <2>1, <3>1, <3>2
  <2>4. CASE Holds(t) \/ t.failed
    <3>1. queue' = <<Merge(old, t)>>
      <4>1. \E i \in DOMAIN queue : queue[i].turn = t.turn
        BY <1>6, <2>1, <2>2
      <4>2. queue' = [i \in DOMAIN queue |->
                        IF queue[i].turn = t.turn THEN Merge(queue[i], t)
                        ELSE queue[i]]
        BY <1>5, <2>4, <4>1 DEF Enqueue
      <4>3. QED
        BY <1>6, <2>1, <2>2, <4>2
    <3>2. CASE Extends(old, t)
      <4>1. TailStart = persisted + 1
        BY <1>1, <1>2, <1>3, <1>6, <2>1, <3>2 DEF Extends, Holds
      <4>2. /\ Merge(old, t) \in Batch /\ Merge(old, t).first = persisted + 1
            /\ Merge(old, t).last = Len(messages)
            /\ Merge(old, t).turn = active.id
        BY <1>4, <1>6, <2>1, <3>2, <4>1, MergeTyped
      <4>3. QED
        BY <1>1, <3>1, <4>2
    <3>3. CASE ~Extends(old, t)
      <4>1. Merge(old, t) = old
        BY <1>4, <2>1, <3>3, MergeTyped
      <4>2. ~Sessionless => old.last = Len(messages)
        <5>1. SUFFICES ASSUME ~Sessionless PROVE FALSE
          OBVIOUS
        <5>2. TailStart = persisted + 1
          BY <1>1, <1>2, <1>3, <5>1 DEF IInv, Settled
        <5>3. QED
          BY <1>1, <1>6, <2>1, <3>3, <5>2 DEF Extends
      <4>3. QED
        BY <2>1, <3>1, <4>1, <4>2
    <3>4. QED
      BY <3>2, <3>3
  <2>5. QED
    BY <2>3, <2>4
<1>9. QED
    BY <1>7, <1>8

(* The end of a Turn queues what is missing. *)
LEMMA CompleteTurnKeeps ==
    ASSUME IInv, CompleteTurn
    PROVE  IInv' /\ Grown(lines, lines')
<1>1. /\ UNCHANGED <<sessionVars, turns, messages, persisted, active, held, shown>>
      /\ Running /\ sync' = "complete" /\ active.phase = "ended"
      /\ messages \in Seq(Message) /\ persisted \in Nat
      /\ Len(messages) \in Nat /\ persisted <= Len(messages)
    BY DEF CompleteTurn, Quiet, IInv, TypeOK, QueueShape
<1>2. SessionTypeOK' /\ Grown(lines, lines') /\ AckedIsDurable'
    BY <1>1, FileAlone DEF Continues
<1>3. SyncShape' /\ Running' /\ RunTurns' = RunTurns
    BY <1>1 DEF IInv, SyncShape, Running, RunTurns
<1>4. CASE ~active.bound
  <2>1. queue' = queue
    BY <1>4 DEF CompleteTurn
  <2>2. TypeOK'
    BY <1>1, <1>2, <2>1 DEF IInv, TypeOK, Syncs
  <2>3. QueueShape' /\ Settled' /\ NoGap'
    BY <1>1, <1>3, <1>4, <2>1 DEF IInv, QueueShape, Settled, NoGap
  <2>4. QED
    BY <1>2, <1>3, <2>2, <2>3 DEF IInv
<1>5. CASE active.bound /\ queue' = <<>> /\ persisted = Len(messages)
  <2>1. TypeOK'
    BY <1>1, <1>2, <1>5 DEF IInv, TypeOK, Syncs
  <2>2. active.start <= persisted
    BY <1>1, <1>5 DEF IInv, SyncShape
  <2>3. QueueShape' /\ Settled' /\ NoGap'
    BY <1>1, <1>3, <1>5, <2>2 DEF QueueShape, Settled, NoGap, Gap
  <2>4. QED
    BY <1>2, <1>3, <2>1, <2>3 DEF IInv
<1>6. ASSUME active.bound, NEW b \in Batch, queue' = <<b>>,
             b.first = persisted + 1, persisted <= b.last,
             b.last <= Len(messages), active.start <= b.last,
             ~Sessionless => b.last = Len(messages), b.turn = active.id
      PROVE  IInv' /\ Grown(lines, lines')
  <2>1. /\ queue' \in Seq(Batch) /\ Len(queue') = 1 /\ queue'[1] = b
        /\ queue' # <<>>
    BY <1>6
  <2>2. TypeOK'
    BY <1>1, <1>2, <2>1 DEF IInv, TypeOK, Syncs
  <2>3. active.id \in RunTurns
    BY <1>1 DEF IInv, SyncShape
  <2>4. QueueShape'
    BY <1>1, <1>3, <1>6, <2>1, <2>3 DEF QueueShape
  <2>5. Settled'
    BY <1>1, <1>6, <2>1 DEF IInv, Settled
  <2>6. NoGap'
    BY <1>1, <1>6, <2>1 DEF NoGap, Gap
  <2>7. QED
    BY <1>2, <1>3, <2>2, <2>4, <2>5, <2>6 DEF IInv
<1>7. QED
    BY <1>4, <1>5, <1>6, TailQueued

\* ------------------------------------------------------------------ theorems

(* The program starts in the invariant. *)
LEMMA InitEstablishes == Init => IInv
<1> SUFFICES ASSUME Init PROVE IInv
  OBVIOUS
<1>1. /\ <<>> \in Seq(Entry) /\ <<>> \in Seq(Message) /\ <<>> \in Seq(Batch)
      /\ NoTurn \in Turn
    BY DEF NoTurn, Turn
<1>2. TypeOK
    BY <1>1 DEF Init, InitRun, SessionInit, TypeOK, SessionTypeOK, Syncs, Writers
<1>3. SyncShape /\ QueueShape /\ Settled /\ NoGap /\ AckedIsDurable
    BY DEF Init, InitRun, SyncShape, QueueShape, Settled, NoGap, Gap,
       AckedIsDurable, Running
<1>4. QED
    BY <1>2, <1>3 DEF IInv

(* Nothing happens to the invariant when nothing happens. *)
LEMMA StutterKeeps ==
    ASSUME IInv, UNCHANGED vars
    PROVE  IInv' /\ Grown(lines, lines')
<1>1. Grown(lines, lines')
    BY GrownNot DEF vars, sessionVars, IInv, TypeOK, SessionTypeOK
<1>2. TypeOK' /\ AckedIsDurable'
    BY DEF vars, sessionVars, runVars, IInv, TypeOK, SessionTypeOK,
       AckedIsDurable, Stores, RunTurns
<1>3. SyncShape' /\ QueueShape' /\ Settled' /\ NoGap'
    BY DEF vars, runVars, IInv, SyncShape, QueueShape, Settled, NoGap, Gap,
       Running, RunTurns
<1>4. QED
    BY <1>1, <1>2, <1>3 DEF IInv

(* Every step keeps the invariant and adds to the file at its end only. *)
LEMMA StepKeeps == IInv /\ [Next]_vars => IInv' /\ Grown(lines, lines')
<1> SUFFICES ASSUME IInv, [Next]_vars PROVE IInv' /\ Grown(lines, lines')
  OBVIOUS
<1>1. CASE FlushCommits
    BY <1>1, FlushCommitsKeeps
<1>2. CASE FlushStops
    BY <1>2, FlushStopsKeeps
<1>3. CASE StartTurn
    BY <1>3, StartTurnKeeps
<1>4. CASE RequestTurn \/ RefuseTurn
    BY <1>4, RequestsKeep
<1>5. CASE BeginTurn \/ ApplySteering \/ PrepareRequest \/ CloseToolBatch
           \/ Answer \/ StopTurn \/ PauseTurn
    BY <1>5, TurnStepsKeep
<1>6. CASE PersistPending
    BY <1>6, PersistPendingKeeps
<1>7. CASE PersistFails
    BY <1>7, PersistFailsKeeps
<1>8. CASE CompleteTurn
    BY <1>8, CompleteTurnKeeps
<1>9. CASE FinishTurn
    BY <1>9, FinishTurnKeeps
<1>10. CASE UseSession \/ ReopenInTurn
    BY <1>10, SessionStepsKeep
<1>11. CASE Crash
    BY <1>11, CrashKeeps
<1>12. CASE UNCHANGED vars
    BY <1>12, StutterKeeps
<1>13. QED
    BY <1>1, <1>2, <1>3, <1>4, <1>5, <1>6, <1>7, <1>8, <1>9, <1>10, <1>11,
       <1>12 DEF Next, Run

(* The inductive invariant of the run and its Session, for every bound and
   every fault (application/runs.py, integrations/session_files.py). *)
THEOREM HistoryInvariant == Spec => []IInv
    BY InitEstablishes, StepKeeps, PTL DEF Spec

(* The variables of the run and its Session keep their types. *)
THEOREM HistoryTypeCorrect == Spec => []TypeOK
<1>1. IInv => TypeOK
    BY DEF IInv
<1>2. QED
    BY <1>1, HistoryInvariant, PTL

(* The cursor never runs ahead of the file, whatever appends, quarantines,
   repairs, reopenings and crashes do (_persisted_message_count). *)
THEOREM AcknowledgedIsDurable == Spec => []AckedIsDurable
<1>1. IInv => AckedIsDurable
    BY DEF IInv
<1>2. QED
    BY <1>1, HistoryInvariant, PTL

(* Between Turns one batch at most waits, and it is exactly what is missing,
   when every Turn has a Session (_queue_pending_persistence_batch). *)
THEOREM NothingIsForgotten ==
    ASSUME Sessionless = FALSE
    PROVE  Spec => []QueueIsTheGap
<1>1. IInv => QueueIsTheGap
  <2> SUFFICES ASSUME IInv, Idle PROVE
        IF queue = <<>> THEN persisted = Len(messages)
        ELSE /\ Len(queue) = 1
             /\ queue[1].first = persisted + 1
             /\ queue[1].last = Len(messages)
    BY DEF QueueIsTheGap
  <2>1. Gap
    BY DEF IInv, NoGap, Idle
  <2>2. CASE queue = <<>>
    BY <2>1, <2>2 DEF Gap
  <2>3. CASE queue # <<>>
    BY <2>1, <2>3, QueueFacts DEF Gap, IInv, QueueShape
  <2>4. QED
    BY <2>2, <2>3
<1>2. QED
    BY <1>1, HistoryInvariant, PTL

(* No step removes or changes what is in the file (_append_jsonl,
   _repair_tails). *)
THEOREM FileOnlyGrows == Spec => LogOnlyGrows
<1>1. IInv /\ [Next]_vars => IsPrefix(lines, lines')
  <2> SUFFICES ASSUME IInv, [Next]_vars PROVE IsPrefix(lines, lines')
    OBVIOUS
  <2>1. lines \in Seq(Entry)
    BY DEF IInv, TypeOK, SessionTypeOK
  <2>2. Grown(lines, lines')
    BY StepKeeps
  <2>3. QED
    BY <2>1, <2>2, GrownKeeps
<1>2. QED
    BY <1>1, HistoryInvariant, PTL DEF Spec, LogOnlyGrows

(* While durability is unknown nothing is written, and only releasing the
   writer ends that (_require_writable, _release_after_quarantine). *)
THEOREM QuarantineIsKept == Spec => QuarantineHolds
<1>1. IInv /\ [Next]_vars =>
        (writer = "unknown" => lines' = lines /\ writer' # "open")
  <2> SUFFICES ASSUME IInv, [Next]_vars, writer = "unknown"
               PROVE  lines' = lines /\ writer' # "open"
    OBVIOUS
  <2>1. CASE FlushCommits \/ FlushStops
    BY <2>1 DEF FlushCommits, FlushStops, PersistMessages, AppendTranscript,
       sessionVars
  <2>2. CASE PersistPending \/ PersistFails
    BY <2>2 DEF PersistPending, PersistFails, PersistMessages,
       AppendTranscript, sessionVars
  <2>3. CASE UNCHANGED sessionVars
    BY <2>3 DEF sessionVars
  <2>4. CASE UseSession \/ ReopenInTurn
    BY <2>4 DEF UseSession, ReopenInTurn, OpenWriter, CloseWriter,
       LoseMetadata, fileVars
  <2>5. CASE Crash
    <3>1. InFlight = <<>> /\ <<>> \in Seq(Entry)
      BY DEF InFlight
    <3>2. SessionTypeOK
      BY DEF IInv, TypeOK
    <3>3. CrashWriter(<<>>)
      BY <2>5, <3>1 DEF Crash
    <3>4. QED
      BY <3>1, <3>2, <3>3, CrashGrows
  <2>6. QED
    BY <2>1, <2>2, <2>3, <2>4, <2>5 DEF Next, Run, vars, StartTurn, RefuseTurn,
       BeginTurn, PrepareRequest, CompleteTurn, FinishTurn, RequestTurn,
       ApplySteering, CloseToolBatch, Answer, StopTurn, PauseTurn
<1>2. QED
    BY <1>1, HistoryInvariant, PTL DEF Spec, QuarantineHolds

\* --------------------------------------------------- the file tells the run

\* Every Turn has a Session and no append is mistaken for a failed one.
Faultless == /\ Attachments = FALSE /\ RepairMayFail = FALSE
             /\ Sessionless = FALSE

\* Part of the waiting batch may be in the file; nothing more is written.
Blocked == queue # <<>> /\ queue[1].blocked

\* A Turn runs that may still add messages.
AtWork == Running /\ sync # "complete"

\* No line and no message is of a Turn yet to come.
Numbered == /\ \A i \in DOMAIN lines : lines[i].turn <= turns
            /\ \A m \in DOMAIN messages : messages[m].turn <= turns

\* What is not durable yet belongs to the Turn at work, or to the batch's.
OwnMessages ==
    /\ Running => \A m \in (active.start + 1)..Len(messages) :
                     messages[m].turn = active.id
    /\ queue # <<>> => \A m \in queue[1].first..queue[1].last :
                          messages[m].turn = queue[1].turn

\* The file holds nothing of the run that the cursor does not acknowledge.
Behind == \A i \in DOMAIN lines : RunLine(i) => lines[i].msg <= persisted

\* The Turns that failed have nothing more to write.
Over == \A i \in DOMAIN lines : lines[i].kind = "failure" =>
            /\ AtWork => lines[i].turn # active.id
            /\ queue # <<>> => lines[i].turn # queue[1].turn

\* A failure is queued at the end of a Turn, not before.
NotYetFailed == AtWork /\ queue # <<>> => ~queue[1].failed

Told == /\ FileFollowsRun /\ FailureIsLast /\ Numbered /\ OwnMessages
        /\ Blocked \/ (Behind /\ Over)
        /\ NotYetFailed

\* A batch that may be written: it continues the file.
Fits(b) ==
    /\ b \in Batch /\ b.turn \in RunTurns
    /\ b.first = persisted + 1 /\ persisted <= b.last /\ b.last <= Len(messages)
    /\ \A m \in b.first..b.last : messages[m].turn = b.turn
    /\ \A i \in DOMAIN lines : lines[i].kind = "failure" =>
                                  lines[i].turn # b.turn
    /\ Behind

(* Without those faults a verdict says what reached the file, unless it is
   unknown (append_transcript). *)
LEMMA AppendFaultless ==
    ASSUME SessionTypeOK, Faultless, NEW es \in Seq(Entry), NEW verdict,
           PersistMessages(es, verdict)
    PROVE  \E k \in 0..Len(es) :
              /\ lines' = lines \o SubSeq(es, 1, k)
              /\ verdict = "durable" => k = Len(es)
              /\ verdict = "not_durable" => k = 0
<1>1. /\ 0 \in 0..Len(es) /\ Len(es) \in 0..Len(es)
      /\ lines \o SubSeq(es, 1, 0) = lines
      /\ lines \o SubSeq(es, 1, Len(es)) = lines \o es
  <2>1. Len(es) \in Nat /\ SubSeq(es, 1, 0) = <<>> /\ SubSeq(es, 1, Len(es)) = es
    OBVIOUS
  <2>2. lines \o <<>> = lines
    BY DEF SessionTypeOK
  <2>3. 0 \in 0..Len(es) /\ Len(es) \in 0..Len(es)
    OBVIOUS
  <2>4. lines \o SubSeq(es, 1, 0) = lines \o <<>>
    BY <2>1, Zenon
  <2>5. lines \o SubSeq(es, 1, Len(es)) = lines \o es
    BY <2>1, Zenon
  <2>6. QED
    BY <2>2, <2>3, <2>4, <2>5
<1>2. CASE UNCHANGED lines /\ verdict # "durable"
  <2>1. lines' = lines \o SubSeq(es, 1, 0)
    BY <1>1, <1>2
  <2>2. QED
    BY <1>1, <1>2, <2>1
<1>3. CASE lines' = lines \o es /\ verdict = "durable"
  <2>1. lines' = lines \o SubSeq(es, 1, Len(es))
    BY <1>1, <1>3
  <2>2. QED
    BY <1>1, <1>3, <2>1
<1>4. CASE Ambiguous(es, verdict)
    BY <1>4 DEF Ambiguous, Cut
<1>5. QED
    BY <1>2, <1>3, <1>4 DEF PersistMessages, AppendTranscript, Refused,
       Confirmed, Absent, sessionVars, Faultless

(* All the parts of a run of messages are among its entries
   (transcript_entries_from_message). *)
LEMMA EntriesWithin ==
    ASSUME NEW run \in Seq(Message), NEW t \in Nat,
           NEW first \in Nat, NEW last \in Nat,
           1 <= first, first <= last + 1, last <= Len(run)
    PROVE  LET es == EntriesOf(run, t, first, last)
           IN  \A m \in first..last, p \in 1..Parts :
                  \E i \in 1..Len(es) : es[i] = PartEntry(run, t, m, p)
    BY EntryAt DEF Parts

(* What the entries of a batch are, one by one
   (transcript_entries_from_message, transcript_entries_for_failed_turn). *)
LEMMA BatchFacts ==
    ASSUME TypeOK, NEW b \in Batch,
           1 <= b.first, b.first <= b.last + 1, b.last <= Len(messages)
    PROVE  LET es == BatchEntries(b)
           IN  /\ es \in Seq(Entry)
               /\ \A k \in DOMAIN es :
                    /\ es[k].turn = b.turn
                    /\ es[k].kind = "failure" => b.failed /\ k = Len(es)
                    /\ es[k].kind # "failure" =>
                        /\ es[k].msg \in b.first..b.last
                        /\ es[k].part \in 1..Parts
                        /\ es[k].kind = messages[es[k].msg].kind
               /\ \A i, j \in DOMAIN es :
                    es[i].kind # "failure" /\ es[j].kind # "failure" =>
                        (i < j <=> Precedes(es[i].msg, es[i].part, es[j]))
               /\ \A m \in b.first..b.last, p \in 1..Parts :
                    \E i \in DOMAIN es :
                        es[i] = PartEntry(messages, b.turn, m, p)
<1> DEFINE n == 2 * ((b.last + 1) - b.first)
           main == EntriesOf(messages, b.turn, b.first, b.last)
           rest == IF b.failed THEN <<FailureEntry(b.turn)>> ELSE <<>>
           es == BatchEntries(b)
<1>1. /\ b.turn \in Nat /\ b.first \in Nat /\ b.last \in Nat
      /\ messages \in Seq(Message) /\ b.failed \in BOOLEAN
    BY DEF Batch, TypeOK
<1>2. main \in Seq(Entry) /\ Len(main) = n /\ n \in Nat
  <2>1. main \in Seq(Entry) /\ Len(main) = n
    BY <1>1, EntriesTyped
  <2>2. QED
    BY <1>1, <2>1
<1>3. \A k \in 1..n :
        /\ main[k].turn = b.turn
        /\ main[k].msg = b.first + ((k - 1) \div 2)
        /\ main[k].part = ((k - 1) % 2) + 1
        /\ main[k].kind = messages[b.first + ((k - 1) \div 2)].kind
    BY DEF EntriesOf, Parts
<1>4. FailureEntry(b.turn) \in Entry /\ FailureEntry(b.turn).kind = "failure"
      /\ FailureEntry(b.turn).turn = b.turn
    BY <1>1 DEF FailureEntry, Entry, EntryKinds, Parts
<1>5. rest \in Seq(Entry) /\ (~b.failed => Len(rest) = 0)
      /\ (b.failed => Len(rest) = 1 /\ rest[1] = FailureEntry(b.turn))
    BY <1>4
<1>6. es = main \o rest
    BY DEF BatchEntries
<1> HIDE DEF main, rest, es
<1>7. /\ es \in Seq(Entry) /\ Len(es) = n + Len(rest) /\ DOMAIN es = 1..Len(es)
      /\ \A k \in 1..n : k \in DOMAIN es /\ es[k] = main[k]
      /\ \A k \in DOMAIN es : k \notin 1..n => k - n \in DOMAIN rest
                                               /\ es[k] = rest[k - n]
  <2>1. Len(rest) \in Nat /\ DOMAIN rest = 1..Len(rest) /\ DOMAIN main = 1..n
    BY <1>2, <1>5
  <2>2. es \in Seq(Entry) /\ Len(es) = n + Len(rest)
    BY <1>2, <1>5, <1>6
  <2>3. DOMAIN es = 1..Len(es)
    BY <2>2
  <2>4. \A k \in 1..n : k \in DOMAIN es /\ es[k] = main[k]
    BY <1>2, <1>5, <1>6, <2>1, <2>2, <2>3, SMTT(60)
  <2>5. ASSUME NEW k \in DOMAIN es, k \notin 1..n
        PROVE  k - n \in DOMAIN rest /\ es[k] = rest[k - n]
    BY <1>2, <1>5, <1>6, <2>1, <2>2, <2>3, <2>5, SMTT(60)
  <2>6. QED
    BY <2>2, <2>3, <2>4, <2>5
<1>8. \A k \in DOMAIN es : k \notin 1..n =>
        /\ b.failed /\ k = Len(es) /\ es[k] = FailureEntry(b.turn)
  <2> SUFFICES ASSUME NEW k \in DOMAIN es, k \notin 1..n
               PROVE  /\ b.failed /\ k = Len(es)
                      /\ es[k] = FailureEntry(b.turn)
    OBVIOUS
  <2>1. k \in 1..Len(es) /\ es[k] = rest[k - n] /\ k - n \in 1..Len(rest)
    BY <1>5, <1>7
  <2>2. b.failed /\ Len(rest) = 1 /\ rest[1] = FailureEntry(b.turn)
    BY <1>1, <1>5, <2>1
  <2>3. k - n = 1
    BY <2>1, <2>2
  <2>4. k = n + 1
    BY <1>2, <2>1, <2>3
  <2>5. QED
    BY <1>7, <2>1, <2>2, <2>3, <2>4
<1>9. \A k \in 1..n :
        /\ b.first + ((k - 1) \div 2) \in b.first..b.last
        /\ ((k - 1) % 2) + 1 \in 1..2
    BY <1>1, Z3T(60)
<1>10. \A m \in 1..Len(messages) : messages[m].kind # "failure"
  <2>1. \A m \in 1..Len(messages) : messages[m] \in Message
    BY <1>1
  <2>2. QED
    BY <2>1 DEF Message, MessageKinds
<1>11. \A k \in DOMAIN es : es[k].kind # "failure" <=> k \in 1..n
  <2> SUFFICES ASSUME NEW k \in DOMAIN es
               PROVE  es[k].kind # "failure" <=> k \in 1..n
    OBVIOUS
  <2>1. CASE k \in 1..n
    <3>1. es[k].kind = messages[b.first + ((k - 1) \div 2)].kind
      BY <1>3, <1>7, <2>1
    <3>2. b.first + ((k - 1) \div 2) \in b.first..b.last
      BY <1>9, <2>1
    <3>3. \A m \in b.first..b.last : m \in 1..Len(messages)
      BY <1>1
    <3>4. QED
      BY <1>10, <2>1, <3>1, <3>2, <3>3
  <2>2. CASE k \notin 1..n
    BY <1>4, <1>8, <2>2
  <2>3. QED
    BY <2>1, <2>2
<1>12. \A k \in DOMAIN es :
        /\ es[k].turn = b.turn
        /\ es[k].kind = "failure" => b.failed /\ k = Len(es)
        /\ es[k].kind # "failure" =>
            /\ es[k].msg \in b.first..b.last
            /\ es[k].part \in 1..Parts
            /\ es[k].kind = messages[es[k].msg].kind
    BY <1>3, <1>4, <1>7, <1>8, <1>9, <1>11 DEF Parts
<1>13. ASSUME NEW i \in 1..n, NEW j \in 1..n
       PROVE  i < j <=> Precedes(es[i].msg, es[i].part, es[j])
  <2>1. /\ es[i].msg = b.first + ((i - 1) \div 2) /\ es[i].part = ((i - 1) % 2) + 1
        /\ es[j].msg = b.first + ((j - 1) \div 2) /\ es[j].part = ((j - 1) % 2) + 1
    BY <1>3, <1>7
  <2>2. i < j <=> \/ (i - 1) \div 2 < (j - 1) \div 2
                  \/ /\ (i - 1) \div 2 = (j - 1) \div 2
                     /\ (i - 1) % 2 < (j - 1) % 2
    BY <1>2, Z3
  <2>3. /\ (i - 1) \div 2 \in Int /\ (i - 1) % 2 \in Int
        /\ (j - 1) \div 2 \in Int /\ (j - 1) % 2 \in Int
    BY <1>2
  <2> DEFINE qi == (i - 1) \div 2
             qj == (j - 1) \div 2
             ri == (i - 1) % 2
             rj == (j - 1) % 2
  <2>4. i < j <=> qi < qj \/ (qi = qj /\ ri < rj)
    BY <2>2
  <2>5. /\ es[i].msg = b.first + qi /\ es[i].part = ri + 1
        /\ es[j].msg = b.first + qj /\ es[j].part = rj + 1
        /\ qi \in Int /\ qj \in Int /\ ri \in Int /\ rj \in Int
    BY <2>1, <2>3
  <2> HIDE DEF qi, qj, ri, rj
  <2>6. QED
    BY <1>1, <2>4, <2>5, SMTT(30) DEF Precedes
<1>14. \A m \in b.first..b.last, p \in 1..Parts :
          \E i \in DOMAIN es : es[i] = PartEntry(messages, b.turn, m, p)
  <2>1. \A m \in b.first..b.last, p \in 1..Parts :
          \E i \in 1..Len(main) : main[i] = PartEntry(messages, b.turn, m, p)
    BY <1>1, EntriesWithin, SMTT(30) DEF main
  <2>2. QED
    BY <1>2, <1>7, <2>1
<1>15. \A i, j \in DOMAIN es :
          es[i].kind # "failure" /\ es[j].kind # "failure" =>
            (i < j <=> Precedes(es[i].msg, es[i].part, es[j]))
    BY <1>11, <1>13
<1>16. QED
    BY <1>7, <1>12, <1>14, <1>15 DEF es

(* The lines of a file to which the first k entries of a batch are added. *)
Lengthened(new, log, es, k) ==
    /\ DOMAIN new = 1..(Len(log) + k)
    /\ \A i \in DOMAIN log : i \in DOMAIN new /\ new[i] = log[i]
    /\ \A i \in 1..k : /\ Len(log) + i \in DOMAIN new
                       /\ new[Len(log) + i] = es[i]
    /\ \A i \in DOMAIN new : i \notin DOMAIN log =>
         i - Len(log) \in 1..k /\ new[i] = es[i - Len(log)]

LEMMA AppendedLines ==
    ASSUME NEW log \in Seq(Entry), NEW es \in Seq(Entry), NEW k \in 0..Len(es)
    PROVE  Lengthened(log \o SubSeq(es, 1, k), log, es, k)
<1> DEFINE cut == SubSeq(es, 1, k)
<1>1. cut \in Seq(Entry) /\ Len(cut) = k /\ \A i \in 1..k : cut[i] = es[i]
    OBVIOUS
<1> HIDE DEF cut
<1>2. /\ DOMAIN (log \o cut) = 1..(Len(log) + k)
      /\ \A i \in DOMAIN log : /\ i \in DOMAIN (log \o cut)
                               /\ (log \o cut)[i] = log[i]
      /\ \A i \in 1..k : /\ Len(log) + i \in DOMAIN (log \o cut)
                         /\ (log \o cut)[Len(log) + i] = cut[i]
      /\ \A i \in DOMAIN (log \o cut) : i \notin DOMAIN log =>
            /\ i - Len(log) \in 1..k
            /\ (log \o cut)[i] = cut[i - Len(log)]
    BY <1>1
<1>3. QED
    BY <1>1, <1>2 DEF cut, Lengthened

(* A batch that fits is one, and its entries are what they should be. *)
LEMMA FitsFacts ==
    ASSUME IInv, NEW b, Fits(b)
    PROVE  /\ b \in Batch /\ b.first = persisted + 1
           /\ persisted \in Nat /\ b.last \in Nat /\ persisted <= b.last
           /\ b.last <= Len(messages)
           /\ 1 <= b.first /\ b.first <= b.last + 1
           /\ BatchEntries(b) \in Seq(Entry)
           /\ lines \in Seq(Entry) /\ messages \in Seq(Message)
<1>1. /\ b \in Batch /\ b.first = persisted + 1 /\ persisted <= b.last
      /\ b.last <= Len(messages)
    BY DEF Fits
<1>2. /\ persisted \in Nat /\ lines \in Seq(Entry) /\ messages \in Seq(Message)
      /\ b.last \in Nat /\ b.first \in Nat
    BY <1>1 DEF IInv, TypeOK, SessionTypeOK, Batch
<1>3. 1 <= b.first /\ b.first <= b.last + 1
    BY <1>1, <1>2
<1>4. BatchEntries(b) \in Seq(Entry)
    BY <1>1, <1>3, BatchTyped DEF IInv
<1>5. QED
    BY <1>1, <1>2, <1>3, <1>4

(* However much of a batch that fits reaches the file, a failure stays the
   last line of its Turn. *)
LEMMA WriteKeepsFailures ==
    ASSUME IInv, Told, NEW b, Fits(b), NEW k \in 0..Len(BatchEntries(b)),
           lines' = lines \o SubSeq(BatchEntries(b), 1, k)
    PROVE  /\ FailureIsLast'
           /\ \A i \in DOMAIN lines' : lines'[i].turn <= turns
           /\ \A i \in DOMAIN lines' : lines'[i].kind = "failure" =>
                \/ i \in DOMAIN lines /\ lines'[i] = lines[i]
                \/ b.failed /\ lines'[i].turn = b.turn
<1> DEFINE es == BatchEntries(b)
<1>0. lines' = lines \o SubSeq(es, 1, k) /\ k \in 0..Len(es)
    OBVIOUS
<1>1. /\ es \in Seq(Entry) /\ lines \in Seq(Entry) /\ messages \in Seq(Message)
      /\ b \in Batch /\ b.turn \in RunTurns
    BY FitsFacts DEF Fits
<1>2. \A i \in DOMAIN es : /\ es[i].turn = b.turn
                           /\ es[i].kind = "failure" => b.failed /\ i = Len(es)
    BY FitsFacts, BatchFacts DEF IInv
<1> HIDE DEF es
<1>3. /\ DOMAIN lines' = 1..(Len(lines) + k)
      /\ \A i \in DOMAIN lines : i \in DOMAIN lines' /\ lines'[i] = lines[i]
      /\ \A i \in 1..k : /\ Len(lines) + i \in DOMAIN lines'
                         /\ lines'[Len(lines) + i] = es[i]
      /\ \A i \in DOMAIN lines' : i \notin DOMAIN lines =>
            i - Len(lines) \in 1..k /\ lines'[i] = es[i - Len(lines)]
  <2>1. es \in Seq(Entry) /\ lines \in Seq(Entry)
    BY <1>1
  <2>2. Lengthened(lines', lines, es, k)
    BY <1>0, <2>1, AppendedLines
  <2>3. QED
    BY <2>2 DEF Lengthened
<1>4. k \in Nat /\ k <= Len(es) /\ Len(es) \in Nat /\ Len(lines) \in Nat
      /\ DOMAIN lines = 1..Len(lines) /\ DOMAIN es = 1..Len(es)
    BY <1>1 DEF es
<1>5. ASSUME NEW i \in DOMAIN lines', i \notin DOMAIN lines
      PROVE  /\ lines'[i].turn = b.turn
             /\ lines'[i].kind = "failure" =>
                    b.failed /\ i - Len(lines) = Len(es)
  <2>1. i - Len(lines) \in DOMAIN es /\ lines'[i] = es[i - Len(lines)]
    BY <1>3, <1>4, <1>5
  <2>2. QED
    BY <1>2, <2>1
<1>6. b.turn <= turns
    BY <1>1 DEF Told, Numbered, RunTurns
<1>7. \A i \in DOMAIN lines' : lines'[i].turn <= turns
  <2>1. \A i \in DOMAIN lines : lines[i].turn <= turns
    BY DEF Told, Numbered
  <2>2. QED
    BY <1>3, <1>5, <1>6, <2>1
<1>8. \A i \in DOMAIN lines' : lines'[i].kind = "failure" =>
                \/ i \in DOMAIN lines /\ lines'[i] = lines[i]
                \/ b.failed /\ lines'[i].turn = b.turn
    BY <1>3, <1>5
<1>9. ASSUME NEW i \in DOMAIN lines', NEW j \in DOMAIN lines', i < j,
             lines'[i].kind = "failure"
      PROVE  lines'[j].turn # lines'[i].turn
  <2>1. CASE j \in DOMAIN lines
    <3>1. i \in DOMAIN lines
      BY <1>3, <1>4, <1>9, <2>1
    <3>2. QED
      BY <1>3, <1>9, <2>1, <3>1 DEF Told, FailureIsLast
  <2>2. CASE i \in DOMAIN lines /\ j \notin DOMAIN lines
    <3>1. lines[i].turn # b.turn
      BY <1>3, <1>9, <2>2 DEF Fits
    <3>2. QED
      BY <1>3, <1>5, <2>2, <3>1
  <2>3. CASE i \notin DOMAIN lines /\ j \notin DOMAIN lines
    <3>1. i - Len(lines) = Len(es)
      BY <1>5, <1>9, <2>3
    <3>2. j - Len(lines) \in 1..k
      BY <1>3, <2>3
    <3>3. QED
      BY <1>3, <1>4, <1>9, <3>1, <3>2
  <2>4. QED
    BY <2>1, <2>2, <2>3
<1>10. QED
    BY <1>7, <1>8, <1>9 DEF FailureIsLast

(* A message is not a failure. *)
LEMMA MessageKind ==
    ASSUME messages \in Seq(Message), NEW m \in DOMAIN messages
    PROVE  messages[m].kind # "failure"
<1>1. messages[m] \in Message
    OBVIOUS
<1>2. QED
    BY <1>1 DEF Message, MessageKinds

(* However much of a batch that fits reaches the file, the file tells the
   run in order. *)
LEMMA WriteFollows ==
    ASSUME IInv, Told, NEW b, Fits(b), NEW k \in 0..Len(BatchEntries(b)),
           lines' = lines \o SubSeq(BatchEntries(b), 1, k),
           messages' = messages
    PROVE  /\ FileFollowsRun'
           /\ \A i \in DOMAIN lines' : RunLine(i)' => lines'[i].msg <= b.last
<1> DEFINE es == BatchEntries(b)
<1>0. lines' = lines \o SubSeq(es, 1, k) /\ k \in 0..Len(es)
    OBVIOUS
<1>1. /\ es \in Seq(Entry) /\ lines \in Seq(Entry) /\ messages \in Seq(Message)
      /\ b \in Batch /\ b.turn \in RunTurns /\ RunTurns' = RunTurns
      /\ b.first = persisted + 1 /\ persisted \in Nat /\ b.last \in Nat
      /\ persisted <= b.last /\ b.last <= Len(messages)
      /\ Len(messages) \in Nat /\ DOMAIN messages = 1..Len(messages)
    BY FitsFacts DEF Fits, RunTurns
<1>2. \A i \in DOMAIN es :
        es[i].kind # "failure" => /\ es[i].turn = b.turn
                                  /\ es[i].msg \in b.first..b.last
                                  /\ es[i].part \in 1..Parts
                                  /\ es[i].kind = messages[es[i].msg].kind
    BY FitsFacts, BatchFacts DEF IInv
<1>3. \A i, j \in DOMAIN es :
        es[i].kind # "failure" /\ es[j].kind # "failure" =>
            (i < j <=> Precedes(es[i].msg, es[i].part, es[j]))
    BY FitsFacts, BatchFacts DEF IInv
<1>4. \A m \in b.first..b.last, p \in 1..Parts :
        \E i \in DOMAIN es : es[i] = PartEntry(messages, b.turn, m, p)
    BY FitsFacts, BatchFacts DEF IInv
<1> HIDE DEF es
<1>5. /\ DOMAIN lines' = 1..(Len(lines) + k)
      /\ \A i \in DOMAIN lines : i \in DOMAIN lines' /\ lines'[i] = lines[i]
      /\ \A i \in 1..k : /\ Len(lines) + i \in DOMAIN lines'
                         /\ lines'[Len(lines) + i] = es[i]
      /\ \A i \in DOMAIN lines' : i \notin DOMAIN lines =>
            i - Len(lines) \in 1..k /\ lines'[i] = es[i - Len(lines)]
  <2>1. es \in Seq(Entry) /\ lines \in Seq(Entry)
    BY <1>1
  <2>2. Lengthened(lines', lines, es, k)
    BY <1>0, <2>1, AppendedLines
  <2>3. QED
    BY <2>2 DEF Lengthened
<1>6. k \in Nat /\ k <= Len(es) /\ Len(es) \in Nat /\ Len(lines) \in Nat
      /\ DOMAIN lines = 1..Len(lines) /\ DOMAIN es = 1..Len(es)
    BY <1>1 DEF es
<1>7. \A i \in DOMAIN lines : \A m, p : Stores(i, m, p)' <=> Stores(i, m, p)
    BY <1>1, <1>5 DEF Stores
<1>8. \A i \in DOMAIN lines : RunLine(i)' <=> RunLine(i)
    BY <1>1, <1>5 DEF RunLine
<1>9. \A i \in DOMAIN lines : RunLine(i) => lines[i].msg <= persisted
    BY DEF Fits, Behind
<1>10. ASSUME NEW i \in DOMAIN lines', i \notin DOMAIN lines, RunLine(i)'
       PROVE  /\ i - Len(lines) \in DOMAIN es
              /\ lines'[i] = es[i - Len(lines)]
              /\ es[i - Len(lines)].kind # "failure"
  <2>1. i - Len(lines) \in 1..k /\ lines'[i] = es[i - Len(lines)]
    BY <1>5, <1>10
  <2>2. QED
    BY <1>6, <1>10, <2>1 DEF RunLine
<1>11. \A i \in DOMAIN lines' : RunLine(i)' => lines'[i].msg <= b.last
  <2> SUFFICES ASSUME NEW i \in DOMAIN lines', RunLine(i)'
               PROVE  lines'[i].msg <= b.last
    OBVIOUS
  <2>1. CASE i \in DOMAIN lines
    <3>1. lines[i] \in Entry
      BY <1>1, <2>1
    <3>2. lines'[i].msg <= persisted /\ lines'[i].msg \in Nat
      BY <1>5, <1>8, <1>9, <2>1, <3>1 DEF Entry
    <3>3. QED
      BY <1>1, <3>2, SMTT(30)
  <2>2. CASE i \notin DOMAIN lines
    <3>1. lines'[i].msg \in b.first..b.last
      BY <1>2, <1>10, <2>2
    <3>2. QED
      BY <1>1, <3>1
  <2>3. QED
    BY <2>1, <2>2
<1>12. ASSUME NEW j \in DOMAIN lines, RunLine(j)'
       PROVE  LET e == lines'[j]
              IN  /\ e.msg \in DOMAIN messages' /\ e.part \in 1..Parts
                  /\ e.kind = messages'[e.msg].kind
                  /\ e.turn = messages'[e.msg].turn
                  /\ \A m \in DOMAIN messages', p \in 1..Parts :
                        (\E i \in 1..(j - 1) : Stores(i, m, p)')
                            <=> Precedes(m, p, e)
  <2>1. 1..(j - 1) \subseteq DOMAIN lines
    BY <1>6
  <2>2. lines'[j] = lines[j] /\ RunLine(j)
    BY <1>5, <1>8, <1>12
  <2>3. QED
    BY <1>7, <2>1, <2>2 DEF Told, FileFollowsRun
<1>13. ASSUME NEW j \in DOMAIN lines', j \notin DOMAIN lines, RunLine(j)'
       PROVE  LET e == lines'[j]
              IN  /\ e.msg \in DOMAIN messages' /\ e.part \in 1..Parts
                  /\ e.kind = messages'[e.msg].kind
                  /\ e.turn = messages'[e.msg].turn
                  /\ \A m \in DOMAIN messages', p \in 1..Parts :
                        (\E i \in 1..(j - 1) : Stores(i, m, p)')
                            <=> Precedes(m, p, e)
  <2> DEFINE q == j - Len(lines)
             e == es[q]
  <2>1. q \in DOMAIN es /\ lines'[j] = e /\ e.kind # "failure"
    BY <1>10, <1>13
  <2>2. j \in Nat /\ j = Len(lines) + q /\ q \in 1..k
    BY <1>5, <1>6, <1>13
  <2>3. /\ e.turn = b.turn /\ e.msg \in b.first..b.last
        /\ e.part \in 1..Parts /\ e.kind = messages[e.msg].kind
    BY <1>2, <2>1
  <2> HIDE DEF e
  <2>4. e.msg \in DOMAIN messages /\ e.turn = messages[e.msg].turn
    <3>1. e.msg \in DOMAIN messages
      BY <1>1, <2>3
    <3>2. messages[e.msg].turn = b.turn
      BY <2>3 DEF Fits
    <3>3. QED
      BY <2>3, <3>1, <3>2
  <2>5. ASSUME NEW m \in DOMAIN messages, NEW p \in 1..Parts,
               NEW i \in 1..(j - 1), Stores(i, m, p)'
        PROVE  Precedes(m, p, e)
    <3>1. i \in DOMAIN lines' /\ RunLine(i)' /\ lines'[i].msg = m
          /\ lines'[i].part = p
      <4>1. i \in DOMAIN lines'
        BY <1>5, <2>2, <2>5
      <4>2. messages[m].kind # "failure"
        BY <1>1, <2>5, MessageKind
      <4>3. QED
        BY <2>5, <4>1, <4>2 DEF Stores, RunLine
    <3>2. CASE i \in DOMAIN lines
      <4>1. m <= persisted
        BY <1>5, <1>8, <1>9, <3>1, <3>2
      <4>2. m < e.msg
        BY <1>1, <2>3, <4>1
      <4>3. QED
        BY <4>2 DEF Precedes
    <3>3. CASE i \notin DOMAIN lines
      <4>1. /\ i - Len(lines) \in DOMAIN es
            /\ lines'[i] = es[i - Len(lines)]
            /\ es[i - Len(lines)].kind # "failure"
        BY <1>10, <3>1, <3>3
      <4>2. i - Len(lines) < q
        BY <1>6, <2>2
      <4>3. Precedes(es[i - Len(lines)].msg, es[i - Len(lines)].part, es[q])
        BY <1>3, <2>1, <4>1, <4>2 DEF e
      <4>4. QED
        BY <3>1, <4>1, <4>3 DEF e
    <3>4. QED
      BY <3>2, <3>3
  <2>6. ASSUME NEW m \in DOMAIN messages, NEW p \in 1..Parts,
               Precedes(m, p, e)
        PROVE  \E i \in 1..(j - 1) : Stores(i, m, p)'
    <3>1. m \in Nat /\ 1 <= m /\ m <= b.last
      <4>1. m \in Nat /\ 1 <= m
        BY <1>1, <2>6
      <4>2. m <= e.msg
        BY <1>1, <2>3, <2>6, <4>1 DEF Precedes
      <4>3. QED
        BY <1>1, <2>3, <4>1, <4>2
    <3>2. CASE m <= persisted
      <4>1. m \in 1..persisted
        BY <1>1, <3>1, <3>2
      <4>2. PICK i \in DOMAIN lines : Stores(i, m, p)
        BY <4>1 DEF IInv, AckedIsDurable
      <4>3. i \in 1..(j - 1)
        BY <1>6, <2>2, <4>2
      <4>4. QED
        BY <1>7, <4>2, <4>3
    <3>3. CASE ~(m <= persisted)
      <4>1. m \in b.first..b.last
        BY <1>1, <3>1, <3>3
      <4>2. PICK r \in DOMAIN es : es[r] = PartEntry(messages, b.turn, m, p)
        BY <1>4, <4>1
      <4>3. /\ es[r].msg = m /\ es[r].part = p /\ es[r].turn = b.turn
            /\ es[r].kind = messages[m].kind /\ es[r].kind # "failure"
        BY <1>1, <4>2, MessageKind DEF PartEntry
      <4>4. r < q
        BY <1>3, <2>1, <2>6, <4>2, <4>3 DEF e
      <4>5. r \in 1..k /\ Len(lines) + r \in 1..(j - 1)
        <5>1. r \in Nat /\ 1 <= r
          BY <1>6, <4>2
        <5>2. QED
          BY <1>6, <2>2, <4>4, <5>1
      <4>6. PICK i \in 1..(j - 1) : i = Len(lines) + r
        BY <4>5
      <4>7. Stores(i, m, p)'
        <5>1. lines'[i] = es[r]
          BY <1>5, <4>5, <4>6
        <5>2. b.turn \in RunTurns' /\ messages'[m] = messages[m]
          BY <1>1
        <5>3. QED
          BY <4>3, <5>1, <5>2 DEF Stores
      <4>8. QED
        BY <4>7
    <3>4. QED
      BY <3>2, <3>3
  <2>7. QED
    BY <2>1, <2>3, <2>4, <2>5, <2>6
<1>14. QED
    BY <1>5, <1>11, <1>12, <1>13 DEF FileFollowsRun

(* The batch that waits fits the file, unless it is blocked. *)
LEMMA QueueFits ==
    ASSUME IInv, Told, queue # <<>>, ~queue[1].blocked
    PROVE  Fits(queue[1])
<1>1. /\ queue[1] \in Batch /\ queue[1].turn \in RunTurns
      /\ queue[1].first = persisted + 1
      /\ persisted <= queue[1].last /\ queue[1].last <= Len(messages)
    BY QueueFacts DEF IInv, QueueShape
<1>2. Behind /\ Over
    BY DEF Told, Blocked
<1>3. QED
    BY <1>1, <1>2 DEF Fits, Told, OwnMessages, Over

(* What is pending fits the file when nothing waits. *)
LEMMA PendingFits ==
    ASSUME IInv, Told, Faultless, queue = <<>>, AtWork, NEW bl \in BOOLEAN
    PROVE  /\ Fits(Pending(bl)) /\ Pending(bl).failed = FALSE
           /\ Pending(bl).turn = active.id /\ Pending(bl).last = Len(messages)
           /\ Pending(bl).first = persisted + 1
           /\ BatchEntries(Pending(bl)) = BatchEntries(Pending(FALSE))
<1>1. /\ persisted \in Nat /\ messages \in Seq(Message) /\ active \in Turn
      /\ active.start \in Nat /\ Len(messages) \in Nat
      /\ persisted <= Len(messages) /\ Running /\ active.id \in RunTurns
      /\ active.start <= persisted
    BY DEF IInv, TypeOK, Turn, QueueShape, SyncShape, AtWork, NoGap, Settled,
       Faultless
<1>2. /\ Pending(bl).failed = FALSE /\ Pending(bl).turn = active.id
      /\ Pending(bl).last = Len(messages) /\ Pending(bl).first = persisted + 1
      /\ BatchEntries(Pending(bl)) = BatchEntries(Pending(FALSE))
    BY DEF Pending, BatchEntries
<1>3. Pending(bl) \in Batch
    BY <1>1, PendingTyped DEF IInv
<1>4. Behind /\ Over
    BY DEF Told, Blocked
<1>5. \A m \in (persisted + 1)..Len(messages) : messages[m].turn = active.id
    BY <1>1 DEF Told, OwnMessages
<1>6. \A i \in DOMAIN lines : lines[i].kind = "failure" =>
                                 lines[i].turn # active.id
    BY <1>4 DEF Over
<1>7. Fits(Pending(bl))
    BY <1>1, <1>2, <1>3, <1>4, <1>5, <1>6 DEF Fits
<1>8. QED
    BY <1>2, <1>7

(* While the file is left alone it goes on telling the run, however the run
   goes on. *)
LEMMA FileKept ==
    ASSUME IInv, Told, lines' = lines, messages' \in Seq(Message), Continues,
           \A i \in DOMAIN lines : RunLine(i)' => RunLine(i)
    PROVE  FileFollowsRun' /\ FailureIsLast'
<1>1. messages \in Seq(Message) /\ RunTurns \subseteq RunTurns'
    BY TurnsStay DEF IInv, TypeOK
<1>2. FailureIsLast'
    BY DEF Told, FailureIsLast
<1>3. SUFFICES ASSUME NEW j \in DOMAIN lines, RunLine(j)'
               PROVE  LET e == lines[j]
                      IN  /\ e.msg \in DOMAIN messages' /\ e.part \in 1..Parts
                          /\ e.kind = messages'[e.msg].kind
                          /\ e.turn = messages'[e.msg].turn
                          /\ \A m \in DOMAIN messages', p \in 1..Parts :
                                (\E i \in 1..(j - 1) : Stores(i, m, p)')
                                    <=> Precedes(m, p, e)
    BY <1>2 DEF FileFollowsRun
<1> DEFINE e == lines[j]
<1>4. /\ e.msg \in DOMAIN messages /\ e.part \in 1..Parts
      /\ e.kind = messages[e.msg].kind /\ e.turn = messages[e.msg].turn
      /\ \A m \in DOMAIN messages, p \in 1..Parts :
            (\E i \in 1..(j - 1) : Stores(i, m, p)) <=> Precedes(m, p, e)
    BY <1>3 DEF Told, FileFollowsRun
<1> HIDE DEF e
<1>5. \A m \in DOMAIN messages : m \in DOMAIN messages'
                                 /\ messages'[m] = messages[m]
    BY <1>1 DEF Continues
<1>6. \A i \in 1..(j - 1) : i \in DOMAIN lines
    BY <1>3 DEF IInv, TypeOK, SessionTypeOK
<1>7. ASSUME NEW m \in DOMAIN messages', NEW p \in 1..Parts
      PROVE  (\E i \in 1..(j - 1) : Stores(i, m, p)') <=> Precedes(m, p, e)
  <2>1. \A i \in 1..(j - 1) : Stores(i, m, p)' => RunLine(i)
    <3>1. messages'[m] \in Message
      BY <1>7
    <3>2. messages'[m].kind # "failure"
      BY <3>1 DEF Message, MessageKinds
    <3>3. \A i \in 1..(j - 1) : Stores(i, m, p)' => RunLine(i)'
      BY <3>2 DEF Stores, RunLine
    <3>4. QED
      BY <1>6, <3>3
  <2>2. CASE m \in DOMAIN messages
    <3>1. \A i \in 1..(j - 1) : Stores(i, m, p)' => Stores(i, m, p)
      BY <1>5, <2>1, <2>2 DEF Stores, RunLine
    <3>2. \A i \in 1..(j - 1) : Stores(i, m, p) => Stores(i, m, p)'
      BY <1>1, <1>5, <2>2 DEF Stores
    <3>3. QED
      BY <1>4, <2>2, <3>1, <3>2
  <2>3. CASE m \notin DOMAIN messages
    <3>1. \A i \in 1..(j - 1) : ~Stores(i, m, p)'
      <4>1. \A i \in 1..(j - 1) : RunLine(i) => lines[i].msg \in DOMAIN messages
        BY <1>6 DEF Told, FileFollowsRun
      <4>2. QED
        BY <2>1, <2>3, <4>1 DEF Stores
    <3>2. m \in Nat /\ e.msg < m
      <4>1. /\ DOMAIN messages = 1..Len(messages) /\ Len(messages) \in Nat
            /\ DOMAIN messages' = 1..Len(messages') /\ Len(messages') \in Nat
        BY <1>1
      <4>2. QED
        BY <1>4, <1>7, <2>3, <4>1
    <3>3. ~Precedes(m, p, e)
      BY <1>1, <1>4, <3>2 DEF Precedes
    <3>4. QED
      BY <3>1, <3>3
  <2>4. QED
    BY <2>2, <2>3
<1>8. QED
    BY <1>4, <1>5, <1>7 DEF e

(* A step that writes nothing and leaves the queue: the Turn goes on, or
   there is none. *)
LEMMA TurnTells ==
    ASSUME IInv, Told, UNCHANGED <<lines, turns, persisted, queue>>,
           messages' \in Seq(Message), Continues,
           Running' => /\ Running /\ active'.id = active.id
                       /\ active'.start = active.start,
           AtWork' => AtWork,
           \A m \in DOMAIN messages' : m \notin DOMAIN messages =>
                Running /\ messages'[m].turn = active.id
    PROVE  Told'
<1>1. messages \in Seq(Message) /\ RunTurns \subseteq RunTurns'
      /\ (Running => active.id \in RunTurns)
      /\ \A m \in DOMAIN messages : m \in DOMAIN messages'
                                    /\ messages'[m] = messages[m]
    BY TurnsStay, SMTT(30) DEF IInv, TypeOK, SyncShape, Continues
<1>2. RunTurns' \subseteq RunTurns
    BY <1>1 DEF RunTurns
<1>3. \A i \in DOMAIN lines : RunLine(i)' => RunLine(i)
    BY <1>2 DEF RunLine
<1>4. FileFollowsRun' /\ FailureIsLast'
    BY <1>3, FileKept
<1>5. Numbered'
  <2>1. \A t \in RunTurns : t <= turns
    BY DEF Told, Numbered, RunTurns
  <2>2. \A m \in DOMAIN messages' : messages'[m].turn \in RunTurns'
    BY DEF RunTurns
  <2>3. QED
    BY <1>2, <2>1, <2>2 DEF Told, Numbered
<1>6. OwnMessages'
  <2>1. ASSUME Running', NEW m \in (active.start + 1)..Len(messages')
        PROVE  messages'[m].turn = active.id
    <3>1. CASE m \in DOMAIN messages
      <4>1. m \in (active.start + 1)..Len(messages)
        BY <1>1, <2>1, <3>1
      <4>2. QED
        BY <1>1, <2>1, <3>1, <4>1 DEF Told, OwnMessages
    <3>2. CASE m \notin DOMAIN messages
      <4>1. active.start \in Nat
        BY DEF IInv, TypeOK, Turn
      <4>2. m \in DOMAIN messages'
        BY <2>1, <4>1
      <4>3. QED
        BY <3>2, <4>2
    <3>3. QED
      BY <3>1, <3>2
  <2>2. ASSUME queue # <<>>, NEW m \in queue[1].first..queue[1].last
        PROVE  messages'[m].turn = queue[1].turn
    <3>1. queue[1] \in Batch
      BY <2>2, QueueFacts
    <3>2. m \in DOMAIN messages
      BY <1>1, <2>2, <3>1 DEF IInv, TypeOK, QueueShape, Batch
    <3>3. QED
      BY <1>1, <2>2, <3>2 DEF Told, OwnMessages
  <2>3. QED
    BY <2>1, <2>2 DEF OwnMessages
<1>7. (Blocked \/ (Behind /\ Over))'
  <2>1. Blocked' <=> Blocked
    BY DEF Blocked
  <2>2. Behind => Behind'
    BY <1>3 DEF Behind
  <2>3. Over => Over'
    BY DEF Over, AtWork
  <2>4. QED
    BY <2>1, <2>2, <2>3 DEF Told
<1>8. NotYetFailed'
    BY DEF Told, NotYetFailed
<1>9. QED
    BY <1>4, <1>5, <1>6, <1>7, <1>8 DEF Told

\* What holds after a batch is written, however the Turn then stands.
GoesOn == /\ messages' = messages /\ turns' = turns
          /\ Running' => /\ Running /\ active'.id = active.id
                         /\ active'.start = active.start
          /\ AtWork' => AtWork

(* The messages behind the cursor keep their owners. *)
LEMMA OwnersStay ==
    ASSUME IInv, Told, GoesOn,
           queue' # <<>> => /\ queue'[1].turn = queue[1].turn /\ queue # <<>>
                            /\ queue'[1].first = queue[1].first
                            /\ queue'[1].last = queue[1].last
    PROVE  OwnMessages'
    BY DEF GoesOn, Told, OwnMessages

(* A batch that is appended leaves the run told. *)
LEMMA WrittenTells ==
    ASSUME IInv, Told, GoesOn, NEW b, Fits(b),
           lines' = lines \o BatchEntries(b),
           queue' = <<>>, persisted' = b.last, AtWork => ~b.failed, ~Blocked
    PROVE  Told'
<1> DEFINE es == BatchEntries(b)
<1>1. /\ es \in Seq(Entry) /\ b \in Batch
      /\ SubSeq(es, 1, Len(es)) = es /\ Len(es) \in 0..Len(es)
    BY FitsFacts
<1>2. lines' = lines \o SubSeq(es, 1, Len(es)) /\ messages' = messages
      /\ turns' = turns
    BY <1>1 DEF GoesOn
<1>3. /\ FailureIsLast'
      /\ \A i \in DOMAIN lines' : lines'[i].turn <= turns
      /\ \A i \in DOMAIN lines' : lines'[i].kind = "failure" =>
            \/ i \in DOMAIN lines /\ lines'[i] = lines[i]
            \/ b.failed /\ lines'[i].turn = b.turn
    BY <1>1, <1>2, WriteKeepsFailures
<1>4. /\ FileFollowsRun'
      /\ \A i \in DOMAIN lines' : RunLine(i)' => lines'[i].msg <= b.last
    BY <1>1, <1>2, WriteFollows
<1> HIDE DEF es
<1>5. Numbered'
    BY <1>2, <1>3 DEF Told, Numbered
<1>6. OwnMessages'
    BY OwnersStay
<1>7. Behind'
    BY <1>4 DEF Behind
<1>8. Over'
  <2>1. \A i \in DOMAIN lines : lines[i].kind = "failure" /\ AtWork =>
            lines[i].turn # active.id
    BY DEF Told, Over
  <2>2. AtWork' => AtWork /\ ~b.failed /\ active'.id = active.id
    BY DEF GoesOn, AtWork
  <2>3. QED
    BY <1>3, <2>1, <2>2 DEF Over
<1>9. NotYetFailed' /\ ~Blocked'
    BY DEF NotYetFailed, Blocked
<1>10. QED
    BY <1>3, <1>4, <1>5, <1>6, <1>7, <1>8, <1>9 DEF Told

(* A batch that may have been appended in part leaves the run told, because
   it is blocked from then on. *)
LEMMA PartlyWrittenTells ==
    ASSUME IInv, Told, NEW b, Fits(b), NEW k \in 0..Len(BatchEntries(b)),
           lines' = lines \o SubSeq(BatchEntries(b), 1, k),
           messages' = messages, turns' = turns,
           Blocked', OwnMessages', NotYetFailed'
    PROVE  Told'
<1>1. /\ FailureIsLast' /\ \A i \in DOMAIN lines' : lines'[i].turn <= turns
    BY WriteKeepsFailures
<1>2. FileFollowsRun'
    BY WriteFollows
<1>3. Numbered'
    BY <1>1 DEF Told, Numbered
<1>4. QED
    BY <1>1, <1>2, <1>3 DEF Told

(* Flushing the batch that waits (_flush_pending_persistence). *)
LEMMA FlushCommitsTells ==
    ASSUME IInv, Told, Faultless, FlushCommits
    PROVE  Told'
<1>1. /\ queue # <<>> /\ Head(queue) = queue[1] /\ Tail(queue) = <<>>
      /\ ~queue[1].blocked /\ ~Blocked
      /\ BatchEntries(queue[1]) \in Seq(Entry)
    BY QueueFacts DEF FlushCommits, Blocked
<1>2. Fits(queue[1])
    BY <1>1, QueueFits
<1>3. /\ queue[1].first = persisted + 1
      /\ persisted \in Nat /\ queue[1].last \in Nat
    BY <1>2, FitsFacts
<1>4. persisted' = queue[1].last /\ queue' = <<>> /\ GoesOn
  <2>1. persisted' = persisted + ((queue[1].last + 1) - queue[1].first)
    BY <1>1 DEF FlushCommits
  <2>2. persisted' = queue[1].last
    BY <1>3, <2>1
  <2>3. QED
    BY <1>1, <2>2 DEF FlushCommits, GoesOn, Running, AtWork
<1>5. lines' = lines \o BatchEntries(queue[1])
    BY <1>1, AppendGrows DEF FlushCommits, IInv, TypeOK
<1>6. AtWork => ~queue[1].failed
    BY <1>1 DEF Told, NotYetFailed
<1>7. QED
    BY <1>1, <1>2, <1>4, <1>5, <1>6, WrittenTells

(* A flush that fails: nothing was written, or the batch is blocked. *)
LEMMA FlushStopsTells ==
    ASSUME IInv, Told, Faultless, FlushStops
    PROVE  Told'
<1>1. /\ Len(queue) = 1 /\ Head(queue) = queue[1] /\ queue[1] \in Batch
      /\ queue \in Seq(Batch) /\ queue # <<>>
      /\ BatchEntries(queue[1]) \in Seq(Entry)
      /\ messages \in Seq(Message)
    BY QueueFacts DEF FlushStops, IInv, TypeOK
<1>2. /\ messages' = messages /\ persisted' = persisted /\ turns' = turns
      /\ sync' = "none" /\ AfterFailedFlush
    BY DEF FlushStops
<1>3. Running' => /\ Running /\ active'.id = active.id
                  /\ active'.start = active.start /\ sync # "complete"
    BY FailedFlushTypes DEF FlushStops, IInv, TypeOK, SyncShape
<1>4. AtWork' => AtWork
    BY <1>3 DEF AtWork
<1>5. CASE lines' = lines /\ queue' = queue
    BY <1>1, <1>2, <1>3, <1>4, <1>5, TurnTells DEF Continues
<1>6. ASSUME NEW verdict \in {"not_durable", "unknown"}, ~queue[1].blocked,
             PersistMessages(BatchEntries(queue[1]), verdict),
             queue' = [queue EXCEPT ![1].blocked = (verdict = "unknown")]
      PROVE  Told'
  <2>1. PICK k \in 0..Len(BatchEntries(queue[1])) :
            /\ lines' = lines \o SubSeq(BatchEntries(queue[1]), 1, k)
            /\ verdict = "not_durable" => k = 0
    BY <1>1, <1>6, AppendFaultless DEF IInv, TypeOK
  <2>2. queue' = [queue EXCEPT ![1] =
                    [queue[1] EXCEPT !.blocked = (verdict = "unknown")]]
    BY <1>1, <1>6
  <2>3. 1 \in DOMAIN queue
    BY <1>1
  <2>4. queue'[1] = [queue[1] EXCEPT !.blocked = (verdict = "unknown")]
    BY <2>2, <2>3
  <2>5. CASE verdict = "not_durable"
    <3>1. lines' = lines
      <4>1. lines \o <<>> = lines /\ SubSeq(BatchEntries(queue[1]), 1, 0) = <<>>
        BY <1>1 DEF IInv, TypeOK, SessionTypeOK
      <4>2. QED
        BY <2>1, <2>5, <4>1
    <3>2. queue' = queue
      <4>1. queue[1].blocked = FALSE
        BY <1>1, <1>6 DEF Batch
      <4>2. [queue[1] EXCEPT !.blocked = FALSE] = queue[1]
        BY <1>1, <4>1 DEF Batch
      <4>3. queue' = [queue EXCEPT ![1] = queue[1]]
        BY <2>2, <2>5, <4>2
      <4>4. QED
        BY <1>1, <4>3
    <3>3. QED
      BY <1>5, <3>1, <3>2
  <2>6. CASE verdict = "unknown"
    <3>1. /\ queue'[1].blocked /\ queue'[1].turn = queue[1].turn
          /\ queue'[1].first = queue[1].first
          /\ queue'[1].last = queue[1].last
          /\ queue'[1].failed = queue[1].failed
      BY <1>1, <2>4, <2>6 DEF Batch
    <3>2. queue' # <<>>
      <4>1. Len(queue') = 1 /\ queue' \in Seq(Batch)
        <5>1. [queue[1] EXCEPT !.blocked = (verdict = "unknown")] \in Batch
          BY <1>1 DEF Batch
        <5>2. QED
          BY <1>1, <2>2, <5>1, OneReplaced
      <4>2. QED
        BY <4>1, NotEmpty
    <3>3. Blocked'
      BY <3>1, <3>2 DEF Blocked
    <3>4. OwnMessages'
      BY <1>1, <1>2, <1>3, <1>4, <3>1, OwnersStay DEF GoesOn
    <3>5. NotYetFailed'
      BY <1>1, <1>4, <3>1 DEF NotYetFailed, Told
    <3>6. Fits(queue[1])
      BY <1>1, <1>6, QueueFits
    <3>7. QED
      BY <1>2, <2>1, <3>3, <3>4, <3>5, <3>6, PartlyWrittenTells
  <2>7. QED
    BY <2>5, <2>6
<1>7. QED
    BY <1>1, <1>5, <1>6 DEF FlushStops, sessionVars

(* Everything newer than the cursor is appended (_persist_closed_messages). *)
LEMMA PersistPendingTells ==
    ASSUME IInv, Told, Faultless, PersistPending
    PROVE  Told'
<1>1. AtWork /\ queue = <<>> /\ active \in Turn /\ messages \in Seq(Message)
    BY DEF PersistPending, IInv, TypeOK, SyncShape, AtWork
<1>2. /\ messages' = messages /\ turns' = turns /\ queue' = queue
      /\ active'.id = active.id /\ active'.start = active.start
    BY <1>1 DEF PersistPending, Turn
<1>3. GoesOn
    BY <1>1, <1>2 DEF GoesOn, AtWork
<1>4. CASE persisted = Len(messages) /\ UNCHANGED <<sessionVars, persisted, queue>>
    BY <1>1, <1>2, <1>3, <1>4, TurnTells DEF Continues, GoesOn, sessionVars
<1>5. CASE /\ PersistMessages(BatchEntries(Pending(FALSE)), "durable")
           /\ persisted' = Len(messages)
  <2>1. /\ Fits(Pending(FALSE)) /\ Pending(FALSE).failed = FALSE
        /\ Pending(FALSE).last = Len(messages)
    BY <1>1, PendingFits
  <2>2. BatchEntries(Pending(FALSE)) \in Seq(Entry)
    BY <2>1, FitsFacts
  <2>3. lines' = lines \o BatchEntries(Pending(FALSE))
    BY <1>5, <2>2, AppendGrows DEF IInv, TypeOK
  <2>4. ~Blocked /\ queue' = <<>> /\ persisted' = Pending(FALSE).last
    BY <1>1, <1>2, <1>5, <2>1 DEF Blocked
  <2>5. QED
    BY <1>3, <2>1, <2>3, <2>4, WrittenTells
<1>6. QED
    BY <1>4, <1>5 DEF PersistPending

(* An append that fails queues its batch, blocked if part of it may be in the
   file (_queue_pending_persistence_batch). *)
LEMMA PersistFailsTells ==
    ASSUME IInv, Told, Faultless, PersistFails
    PROVE  Told'
<1>1. /\ AtWork /\ queue = <<>> /\ active \in Turn /\ messages \in Seq(Message)
      /\ persisted < Len(messages) /\ persisted \in Nat
      /\ active.start \in Nat /\ active.start <= persisted
      /\ lines \in Seq(Entry)
    BY DEF PersistFails, IInv, TypeOK, SessionTypeOK, SyncShape, AtWork, Turn,
       NoGap, Settled, Faultless
<1>2. PICK verdict \in {"not_durable", "unknown"} :
          /\ PersistMessages(BatchEntries(Pending(FALSE)), verdict)
          /\ queue' = Enqueue(Pending(verdict = "unknown"))
    BY DEF PersistFails
<1>3. PICK bl \in BOOLEAN : bl = (verdict = "unknown")
    OBVIOUS
<1> DEFINE b == Pending(bl)
<1>4. /\ Fits(b) /\ b.failed = FALSE /\ b.turn = active.id
      /\ b.last = Len(messages) /\ b.first = persisted + 1
      /\ BatchEntries(b) = BatchEntries(Pending(FALSE))
    BY <1>1, PendingFits
<1>5. b.blocked = bl
    BY DEF Pending
<1>6. queue' = Enqueue(b)
    BY <1>2, <1>3
<1> HIDE DEF b
<1>7. b \in Batch /\ BatchEntries(b) \in Seq(Entry)
    BY <1>4, FitsFacts
<1>8. queue' = <<b>>
  <2>1. Holds(b)
    BY <1>1, <1>4 DEF Holds
  <2>2. QED
    BY <1>1, <1>6, <2>1 DEF Enqueue
<1>9. /\ messages' = messages /\ turns' = turns /\ persisted' = persisted
      /\ active'.id = active.id /\ active'.start = active.start
    BY <1>1 DEF PersistFails, Turn
<1>10. queue' # <<>> /\ queue'[1] = b
    BY <1>7, <1>8
<1>11. OwnMessages'
  <2>1. \A m \in (active.start + 1)..Len(messages) : messages[m].turn = active.id
    BY <1>1 DEF Told, OwnMessages, AtWork
  <2>2. \A m \in b.first..b.last : messages[m].turn = b.turn
    BY <1>4 DEF Fits
  <2>3. QED
    BY <1>9, <1>10, <2>1, <2>2 DEF OwnMessages
<1>12. NotYetFailed'
    BY <1>4, <1>10 DEF NotYetFailed
<1>13. PICK k \in 0..Len(BatchEntries(b)) :
            /\ lines' = lines \o SubSeq(BatchEntries(b), 1, k)
            /\ verdict = "not_durable" => k = 0
    BY <1>2, <1>4, <1>7, AppendFaultless DEF IInv, TypeOK
<1>14. CASE verdict = "unknown"
  <2>1. Blocked'
    BY <1>3, <1>5, <1>10, <1>14 DEF Blocked
  <2>2. QED
    BY <1>4, <1>9, <1>11, <1>12, <1>13, <2>1, PartlyWrittenTells
<1>15. CASE verdict = "not_durable"
  <2>1. lines' = lines
    <3>1. lines \o <<>> = lines /\ SubSeq(BatchEntries(b), 1, 0) = <<>>
      BY <1>1, <1>7
    <3>2. QED
      BY <1>13, <1>15, <3>1
  <2>2. RunTurns' = RunTurns
    BY <1>9 DEF RunTurns
  <2>3. FileFollowsRun' /\ FailureIsLast'
    BY <1>1, <1>9, <2>1, <2>2, FileKept DEF Continues, RunLine
  <2>4. Numbered'
    BY <1>9, <2>1 DEF Told, Numbered
  <2>5. Behind /\ Over
    BY <1>1 DEF Told, Blocked
  <2>6. Behind'
    BY <1>9, <2>1, <2>2, <2>5 DEF Behind, RunLine
  <2>7. Over'
    BY <1>1, <1>4, <1>9, <1>10, <2>1, <2>5 DEF Over
  <2>8. QED
    BY <1>11, <1>12, <2>3, <2>4, <2>6, <2>7 DEF Told
<1>16. QED
    BY <1>14, <1>15

(* Queueing a batch never unblocks the one that waits. *)
LEMMA EnqueueKeepsBlocked ==
    ASSUME NEW t \in Batch, queue \in Seq(Batch), Len(queue) = 1,
           queue[1].blocked
    PROVE  Enqueue(t) # <<>> /\ Enqueue(t)[1].blocked
<1>1. 1 \in DOMAIN queue /\ queue # <<>> /\ queue[1] \in Batch
    BY NotEmpty
<1>2. CASE Enqueue(t) = queue
    BY <1>1, <1>2
<1>3. CASE Enqueue(t) = Append(queue, t)
  <2>1. Append(queue, t)[1] = queue[1]
    BY <1>1
  <2>2. Append(queue, t) # <<>>
    BY AppendFills
  <2>3. QED
    BY <1>3, <2>1, <2>2
<1>4. CASE Enqueue(t) = [i \in DOMAIN queue |->
                IF queue[i].turn = t.turn THEN Merge(queue[i], t) ELSE queue[i]]
  <2>1. Merge(queue[1], t).blocked
    BY <1>1 DEF Merge, Batch
  <2>2. Enqueue(t)[1].blocked /\ DOMAIN Enqueue(t) = DOMAIN queue
    BY <1>1, <1>4, <2>1
  <2>3. 1 \in DOMAIN Enqueue(t) /\ DOMAIN <<>> = {}
    BY <1>1, <2>2
  <2>4. QED
    BY <2>2, <2>3
<1>5. QED
    BY <1>2, <1>3, <1>4 DEF Enqueue

(* The end of a Turn queues its tail and writes nothing (_complete_turn). *)
LEMMA CompleteTurnTells ==
    ASSUME IInv, Told, Faultless, CompleteTurn
    PROVE  Told'
<1>1. /\ UNCHANGED <<lines, turns, messages, persisted, active>>
      /\ Running /\ AtWork /\ ~AtWork' /\ active.bound
      /\ messages \in Seq(Message) /\ active \in Turn /\ queue \in Seq(Batch)
      /\ active.start \in Nat /\ active.start <= persisted
      /\ persisted \in Nat /\ Len(messages) \in Nat
    BY DEF CompleteTurn, Quiet, IInv, TypeOK, AtWork, Turn, NoGap, Settled,
       Faultless, sessionVars
<1>2. RunTurns' = RunTurns
    BY <1>1 DEF RunTurns
<1>3. FileFollowsRun' /\ FailureIsLast'
    BY <1>1, <1>2, FileKept DEF Continues, RunLine
<1>4. Numbered'
    BY <1>1 DEF Told, Numbered
<1>5. NotYetFailed'
    BY <1>1 DEF NotYetFailed
<1>6. \A m \in (active.start + 1)..Len(messages) : messages[m].turn = active.id
    BY <1>1 DEF Told, OwnMessages
<1>7. OwnMessages'
  <2>1. ASSUME queue' # <<>>, NEW m \in queue'[1].first..queue'[1].last
        PROVE  messages[m].turn = queue'[1].turn
    <3>1. PICK b \in Batch : /\ queue' = <<b>> /\ b.first = persisted + 1
                             /\ b.last <= Len(messages) /\ b.turn = active.id
      BY <1>1, <2>1, TailQueued
    <3>2. b.last \in Nat /\ queue'[1] = b
      BY <3>1 DEF Batch
    <3>3. m \in (active.start + 1)..Len(messages)
      BY <1>1, <2>1, <3>1, <3>2
    <3>4. QED
      BY <1>6, <3>1, <3>2, <3>3
  <2>2. QED
    BY <1>1, <1>6, <2>1 DEF OwnMessages, Running
<1>8. CASE Blocked
  <2>1. queue # <<>> /\ Len(queue) = 1 /\ queue[1].blocked
    BY <1>8, QueueFacts DEF Blocked
  <2> DEFINE t == [turn |-> active.id, first |-> TailStart,
                   last |-> Len(messages), blocked |-> FALSE,
                   terminal |-> TRUE, failed |-> active.failed]
  <2>2. t \in Batch /\ queue' = Enqueue(t)
    <3>1. TailStart \in Nat
      BY <1>1 DEF TailStart
    <3>2. QED
      BY <1>1, <3>1 DEF Batch, Turn, CompleteTurn
  <2> HIDE DEF t
  <2>3. Blocked'
    BY <1>1, <2>1, <2>2, EnqueueKeepsBlocked DEF Blocked
  <2>4. QED
    BY <1>3, <1>4, <1>5, <1>7, <2>3 DEF Told
<1>9. CASE ~Blocked
  <2>1. Behind /\ Over
    BY <1>9 DEF Told
  <2>2. Behind'
    BY <1>1, <1>2, <2>1 DEF Behind, RunLine
  <2>3. queue' # <<>> => queue'[1].turn = active.id
    BY <1>1, TailQueued
  <2>4. Over'
    BY <1>1, <2>1, <2>3 DEF Over
  <2>5. QED
    BY <1>3, <1>4, <1>5, <1>7, <2>2, <2>4 DEF Told
<1>10. QED
    BY <1>8, <1>9

(* A new Turn has a number that no line of the file bears (start_turn). *)
LEMMA StartTurnTells ==
    ASSUME IInv, Told, StartTurn
    PROVE  Told'
<1> DEFINE m1 == [kind |-> "text", turn |-> turns + 1]
<1>1. /\ messages \in Seq(Message) /\ turns \in Nat /\ queue = <<>>
      /\ Len(messages) \in Nat /\ lines \in Seq(Entry)
    BY DEF IInv, TypeOK, SessionTypeOK, StartTurn
<1>2. /\ messages' = Append(messages, m1) /\ turns' = turns + 1
      /\ UNCHANGED <<lines, persisted, queue>>
      /\ active'.id = turns + 1 /\ active'.start = Len(messages)
    BY DEF StartTurn, sessionVars
<1>3. m1 \in Message /\ m1.turn = turns + 1
    BY <1>1 DEF Message, MessageKinds
<1> HIDE DEF m1
<1>4. /\ messages' \in Seq(Message) /\ Len(messages') = Len(messages) + 1
      /\ DOMAIN messages' = 1..(Len(messages) + 1)
      /\ DOMAIN messages = 1..Len(messages)
      /\ messages'[Len(messages) + 1] = m1
      /\ \A m \in DOMAIN messages : messages'[m] = messages[m]
    BY <1>1, <1>2, <1>3
<1>5. Continues
    BY <1>1, <1>4 DEF Continues
<1>6. \A i \in DOMAIN lines : lines[i].turn \in Nat /\ lines[i].turn <= turns
  <2>1. \A i \in DOMAIN lines : lines[i] \in Entry
    BY <1>1
  <2>2. QED
    BY <2>1 DEF Told, Numbered, Entry
<1>7. \A i \in DOMAIN lines : RunLine(i)' => RunLine(i)
  <2> SUFFICES ASSUME NEW i \in DOMAIN lines, RunLine(i)' PROVE RunLine(i)
    OBVIOUS
  <2>1. PICK m \in DOMAIN messages' : lines[i].turn = messages'[m].turn
    BY <1>2 DEF RunLine, RunTurns
  <2>2. m \in DOMAIN messages
    BY <1>1, <1>3, <1>4, <1>6, <2>1
  <2>3. QED
    BY <1>2, <1>4, <2>1, <2>2 DEF RunLine, RunTurns
<1>8. FileFollowsRun' /\ FailureIsLast'
    BY <1>2, <1>4, <1>5, <1>7, FileKept
<1>9. Numbered'
  <2>1. \A m \in DOMAIN messages : messages[m].turn \in Nat /\ messages[m].turn <= turns
    <3>1. \A m \in DOMAIN messages : messages[m] \in Message
      BY <1>1
    <3>2. QED
      BY <3>1 DEF Told, Numbered, Message
  <2>2. \A i \in DOMAIN lines' : lines'[i].turn <= turns'
    BY <1>1, <1>2, <1>6
  <2>3. \A m \in DOMAIN messages' : messages'[m].turn <= turns'
    BY <1>1, <1>2, <1>3, <1>4, <2>1
  <2>4. QED
    BY <2>2, <2>3 DEF Numbered
<1>10. OwnMessages'
  <2>1. ASSUME NEW m \in (active'.start + 1)..Len(messages')
        PROVE  messages'[m].turn = active'.id
    <3>1. m = Len(messages) + 1
      BY <1>1, <1>2, <1>4, <2>1
    <3>2. QED
      BY <1>2, <1>3, <1>4, <3>1
  <2>2. QED
    BY <1>1, <1>2, <2>1 DEF OwnMessages
<1>11. Behind /\ NotYetFailed'
    BY <1>1, <1>2 DEF Told, Blocked, NotYetFailed
<1>12. Behind'
    BY <1>2, <1>7, <1>11 DEF Behind
<1>13. Over'
    BY <1>1, <1>2, <1>6 DEF Over
<1>14. QED
    BY <1>8, <1>9, <1>10, <1>11, <1>12, <1>13 DEF Told

(* The steps of the Turn between its synchronous calls write nothing. *)
LEMMA TurnStepsTell ==
    ASSUME IInv, Told, BeginTurn \/ ApplySteering \/ PrepareRequest
                       \/ CloseToolBatch \/ Answer \/ StopTurn \/ PauseTurn
    PROVE  Told'
<1>1. messages \in Seq(Message) /\ active \in Turn
    BY DEF IInv, TypeOK
<1>2. Running /\ AtWork
    BY DEF BeginTurn, ApplySteering, PrepareRequest, CloseToolBatch, Answer,
       StopTurn, PauseTurn, Quiet, AtWork
<1>3. UNCHANGED <<lines, turns, persisted, queue>>
    BY DEF BeginTurn, ApplySteering, PrepareRequest, CloseToolBatch, Answer,
       StopTurn, PauseTurn, sessionVars
<1>4. active'.id = active.id /\ active'.start = active.start
    BY <1>1 DEF BeginTurn, ApplySteering, PrepareRequest, CloseToolBatch,
       Answer, StopTurn, PauseTurn, EmitUserMessage, Turn
<1>5. PICK more \in Seq(Message) :
          /\ messages' = messages \o more
          /\ \A i \in DOMAIN more : more[i].turn = active.id
  <2> DEFINE msg(kind) == [kind |-> kind, turn |-> active.id]
  <2>1. msg("text") \in Message /\ msg("call") \in Message /\ msg("result") \in Message
    BY <1>1, MessageTyped DEF MessageKinds
  <2>2. CASE messages' = messages
    <3>1. /\ <<>> \in Seq(Message) /\ messages' = messages \o <<>>
          /\ \A i \in DOMAIN <<>> : <<>>[i].turn = active.id
      BY <1>1, <2>2
    <3>2. QED
      BY <3>1
  <2>3. CASE messages' = Append(messages, msg("text"))
    <3>1. <<msg("text")>> \in Seq(Message)
      BY <2>1
    <3>2. messages' = messages \o <<msg("text")>>
      BY <1>1, <2>1, <2>3
    <3>3. \A i \in DOMAIN <<msg("text")>> : <<msg("text")>>[i].turn = active.id
      OBVIOUS
    <3>4. QED
      BY <3>1, <3>2, <3>3
  <2>4. CASE messages' = messages \o <<msg("call"), msg("result")>>
    <3>1. <<msg("call"), msg("result")>> \in Seq(Message)
      BY <2>1
    <3>2. \A i \in DOMAIN <<msg("call"), msg("result")>> :
              <<msg("call"), msg("result")>>[i].turn = active.id
      OBVIOUS
    <3>3. QED
      BY <2>4, <3>1, <3>2
  <2>5. QED
    BY <2>2, <2>3, <2>4 DEF BeginTurn, ApplySteering, PrepareRequest,
       CloseToolBatch, Answer, StopTurn, PauseTurn
<1>6. /\ messages' \in Seq(Message) /\ Continues
      /\ \A m \in DOMAIN messages' : m \notin DOMAIN messages =>
            messages'[m].turn = active.id
  <2>1. messages' \in Seq(Message) /\ Continues
    BY <1>1, <1>5, MessagesContinue
  <2>2. \A m \in DOMAIN messages' : m \notin DOMAIN messages =>
            /\ m - Len(messages) \in DOMAIN more
            /\ messages'[m] = more[m - Len(messages)]
    BY <1>1, <1>5
  <2>3. QED
    BY <1>5, <2>1, <2>2
<1>7. QED
    BY <1>2, <1>3, <1>4, <1>6, TurnTells

(* Requests, the end of a Turn, the Session and stuttering change neither
   the file nor the run. *)
LEMMA RestTells ==
    ASSUME IInv, Told, RequestTurn \/ RefuseTurn \/ FinishTurn \/ UseSession
                       \/ ReopenInTurn \/ UNCHANGED vars
    PROVE  Told'
<1>1. messages \in Seq(Message) /\ NoTurn.id = 0 /\ SessionTypeOK
    BY DEF IInv, TypeOK, NoTurn
<1>2. UNCHANGED <<lines, turns, persisted, queue, messages>>
    BY <1>1, SessionKeeps DEF RequestTurn, RefuseTurn, FinishTurn, UseSession,
       ReopenInTurn, CloseWriter, fileVars, sessionVars, runVars, vars
<1>3. Running' => Running /\ active' = active
    BY DEF RequestTurn, RefuseTurn, FinishTurn, UseSession, ReopenInTurn,
       runVars, vars, Running
<1>4. AtWork' => AtWork
  <2>1. CASE sync' = sync
    BY <1>3, <2>1 DEF AtWork
  <2>2. CASE RequestTurn \/ RefuseTurn \/ FinishTurn
    <3>1. ~Running'
      BY <1>3, <2>2 DEF RequestTurn, RefuseTurn, FinishTurn, Idle, IInv,
         SyncShape, Running
    <3>2. QED
      BY <3>1 DEF AtWork
  <2>3. QED
    BY <2>1, <2>2 DEF UseSession, ReopenInTurn, runVars, vars
<1>5. QED
    BY <1>1, <1>2, <1>3, <1>4, TurnTells DEF Continues

(* A crash forgets the run; the failures in the file stay last. *)
LEMMA CrashTells ==
    ASSUME IInv, Told, Faultless, Crash
    PROVE  Told'
<1>1. /\ messages' = <<>> /\ queue' = <<>> /\ turns' = turns
      /\ active' = NoTurn /\ lines \in Seq(Entry)
    BY DEF Crash, IInv, TypeOK, SessionTypeOK
<1>2. ~Running' /\ ~AtWork' /\ RunTurns' = {}
    BY <1>1 DEF Running, AtWork, RunTurns
<1>3. FailureIsLast' /\ \A i \in DOMAIN lines' : lines'[i].turn <= turns
  <2>1. CASE lines' = lines
    BY <2>1 DEF Told, FailureIsLast, Numbered
  <2>2. ASSUME NEW b, Fits(b), InFlight = BatchEntries(b),
               CrashWriter(InFlight)
        PROVE  FailureIsLast' /\ \A i \in DOMAIN lines' : lines'[i].turn <= turns
    <3>1. PICK k \in 0..Len(BatchEntries(b)) :
              lines' = lines \o SubSeq(BatchEntries(b), 1, k)
      BY <2>2 DEF CrashWriter, Cut
    <3>2. QED
      BY <2>2, <3>1, WriteKeepsFailures
  <2>3. InFlight = <<>> \/ \E b : Fits(b) /\ InFlight = BatchEntries(b)
    <3>1. queue # <<>> /\ ~Head(queue).blocked =>
            Fits(queue[1]) /\ Head(queue) = queue[1]
      BY QueueFacts, QueueFits
    <3>2. queue = <<>> /\ sync \in {"event", "prepare"} => Fits(Pending(FALSE))
      BY PendingFits DEF IInv, SyncShape, AtWork
    <3>3. QED
      BY <3>1, <3>2 DEF InFlight
  <2>4. CrashWriter(<<>>) \/ CrashWriter(InFlight)
    BY DEF Crash
  <2>5. CrashWriter(<<>>) => lines' = lines
    <3>1. <<>> \in Seq(Entry)
      OBVIOUS
    <3>2. QED
      BY <3>1, CrashGrows DEF IInv, TypeOK
  <2>6. QED
    BY <2>1, <2>2, <2>3, <2>4, <2>5
<1>4. FileFollowsRun' /\ Behind'
    BY <1>2 DEF FileFollowsRun, Behind, RunLine
<1>5. Numbered'
    BY <1>1, <1>3 DEF Numbered
<1>6. OwnMessages' /\ Over' /\ NotYetFailed'
    BY <1>1, <1>2 DEF OwnMessages, Over, NotYetFailed
<1>7. QED
    BY <1>3, <1>4, <1>5, <1>6 DEF Told

(* Every step keeps the file telling the run. *)
LEMMA StepTells == IInv /\ Told /\ Faultless /\ [Next]_vars => Told'
<1> SUFFICES ASSUME IInv, Told, Faultless, [Next]_vars PROVE Told'
  OBVIOUS
<1>1. CASE FlushCommits
    BY <1>1, FlushCommitsTells
<1>2. CASE FlushStops
    BY <1>2, FlushStopsTells
<1>3. CASE PersistPending
    BY <1>3, PersistPendingTells
<1>4. CASE PersistFails
    BY <1>4, PersistFailsTells
<1>5. CASE CompleteTurn
    BY <1>5, CompleteTurnTells
<1>6. CASE StartTurn
    BY <1>6, StartTurnTells
<1>7. CASE BeginTurn \/ ApplySteering \/ PrepareRequest \/ CloseToolBatch
           \/ Answer \/ StopTurn \/ PauseTurn
    BY <1>7, TurnStepsTell
<1>8. CASE RequestTurn \/ RefuseTurn \/ FinishTurn \/ UseSession
           \/ ReopenInTurn \/ UNCHANGED vars
    BY <1>8, RestTells
<1>9. CASE Crash
    BY <1>9, CrashTells
<1>10. QED
    BY <1>1, <1>2, <1>3, <1>4, <1>5, <1>6, <1>7, <1>8, <1>9 DEF Next, Run

(* An empty file tells an empty run. *)
LEMMA InitTells == Init => Told
    BY DEF Init, InitRun, SessionInit, Told, FileFollowsRun, FailureIsLast,
       Numbered, OwnMessages, Behind, Over, NotYetFailed, Running, AtWork

(* Retries, quarantine, reconciliation and crashes put every message into the
   file at most once, in order and under its own Turn, and a failure behind
   all of its Turn (_flush_pending_persistence, _reconcile_transcript_append),
   when every Turn has a Session and no durable append is reported as failed. *)
THEOREM FileToldInOrder ==
    ASSUME Faultless
    PROVE  Spec => []FileTellsTheRun
<1>1. IInv /\ Told /\ [Next]_vars => Told'
    BY StepTells
<1>2. Told => FileTellsTheRun
    BY DEF Told, FileTellsTheRun
<1>3. QED
    BY <1>1, <1>2, InitTells, HistoryInvariant, PTL DEF Spec

=============================================================================
