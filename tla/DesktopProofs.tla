---------------------------- MODULE DesktopProofs ----------------------------
(***************************************************************************)
(* Theorems about the desktop bridge, for every bound: the reads that run  *)
(* beside it (DesktopReads), then the Runtime process and the renderer's   *)
(* link to it (RuntimeLink).                                               *)
(***************************************************************************)
EXTENDS DesktopReads, RuntimeLink, FiniteSetTheorems, SequenceTheorems, TLAPS

USE ReadsAssumption

\* ---------------------------------------------------- the newest of some hits

\* Those of H that were used later than s.
Above(H, s) == {t \in H : LastUsed[t] > LastUsed[s]}

\* hits are the newest of what was scanned, MaxHits of them if there are more.
Top(hits, scanned) ==
    /\ hits \subseteq scanned /\ Cardinality(hits) <= MaxHits
    /\ \/ hits = scanned
       \/ /\ Cardinality(hits) = MaxHits
          /\ \A s \in scanned \ hits, t \in hits : LastUsed[t] > LastUsed[s]

(* Nothing was used later than itself, so fewer than all are above it. *)
LEMMA AboveIsSmaller ==
    ASSUME NEW H \in SUBSET Found, NEW s \in H
    PROVE  /\ IsFiniteSet(H) /\ IsFiniteSet(Above(H, s))
           /\ Cardinality(H) \in Nat /\ Cardinality(Above(H, s)) \in Nat
           /\ Cardinality(H \ {s}) = Cardinality(H) - 1
           /\ Above(H, s) \subseteq H \ {s}
           /\ Cardinality(Above(H, s)) <= Cardinality(H) - 1
           /\ Cardinality(Above(H, s)) = Cardinality(H) - 1 =>
                Above(H, s) = H \ {s}
<1>1. IsFiniteSet(H) /\ Cardinality(H) \in Nat
    BY FS_Subset, FS_CardinalityType
<1>2. IsFiniteSet(H \ {s}) /\ Cardinality(H \ {s}) = Cardinality(H) - 1
    BY <1>1, FS_RemoveElement
<1>3. Above(H, s) \subseteq H \ {s}
    BY DEF Above
<1>4. /\ IsFiniteSet(Above(H, s))
      /\ Cardinality(Above(H, s)) <= Cardinality(H \ {s})
      /\ Cardinality(H \ {s}) = Cardinality(Above(H, s)) =>
            H \ {s} = Above(H, s)
    BY <1>2, <1>3, FS_Subset
<1>5. Cardinality(Above(H, s)) \in Nat
    BY <1>4, FS_CardinalityType
<1>6. QED
    BY <1>1, <1>2, <1>3, <1>4, <1>5

(* Among MaxHits + 1 Sessions one is older than all the others: no two have
   the same number above them. *)
LEMMA OneIsOldest ==
    ASSUME NEW H \in SUBSET Found, Cardinality(H) = MaxHits + 1
    PROVE  \E y \in H : Above(H, y) = H \ {y}
<1> SUFFICES ASSUME \A y \in H : Above(H, y) # H \ {y}
             PROVE  FALSE
    OBVIOUS
<1> DEFINE rank == [s \in H |-> Cardinality(Above(H, s))]
<1>1. IsFiniteSet(H) /\ MaxHits \in Nat /\ MaxHits # 0
    BY FS_Subset
<1>2. \A s \in H : rank[s] \in 0..(MaxHits - 1)
  <2> SUFFICES ASSUME NEW s \in H PROVE rank[s] \in 0..(MaxHits - 1)
    OBVIOUS
  <2>1. /\ Cardinality(Above(H, s)) \in Nat
        /\ Cardinality(Above(H, s)) <= Cardinality(H) - 1
        /\ Cardinality(Above(H, s)) = Cardinality(H) - 1 =>
                Above(H, s) = H \ {s}
    BY AboveIsSmaller
  <2>2. Cardinality(Above(H, s)) # MaxHits
    BY <1>1, <2>1
  <2>3. Cardinality(Above(H, s)) \in 0..(MaxHits - 1)
    BY <1>1, <2>1, <2>2
  <2>4. QED
    BY <2>3
<1>3. rank \in [H -> 0..(MaxHits - 1)]
    BY <1>2
<1>4. IsFiniteSet(0..(MaxHits - 1)) /\ Cardinality(0..(MaxHits - 1)) = MaxHits
    BY <1>1, FS_Interval, SMTT(60)
<1> HIDE DEF rank
<1>5. PICK x, y \in H : x # y /\ rank[x] = rank[y]
  <2>1. Cardinality(0..(MaxHits - 1)) < Cardinality(H)
    BY <1>1, <1>4
  <2>2. QED
    BY <1>1, <1>3, <1>4, <2>1, FS_PigeonHole
<1>6. ASSUME NEW a \in H, NEW b \in H, LastUsed[a] < LastUsed[b]
      PROVE  rank[a] # rank[b]
  <2>1. Above(H, b) \subseteq Above(H, a) /\ b \in Above(H, a) /\ b \notin Above(H, b)
    BY <1>6 DEF Above
  <2>2. IsFiniteSet(Above(H, a)) /\ Above(H, b) # Above(H, a)
    BY <2>1, AboveIsSmaller
  <2>3. Cardinality(Above(H, a)) # Cardinality(Above(H, b))
    BY <2>1, <2>2, FS_Subset
  <2>4. QED
    BY <2>3 DEF rank
<1>7. LastUsed[x] < LastUsed[y] \/ LastUsed[y] < LastUsed[x]
    BY <1>5
<1>8. QED
    BY <1>5, <1>6, <1>7

(* Newest leaves out nothing, or the oldest (_search, the heap of hits). *)
LEMMA NewestOf ==
    ASSUME NEW H \in SUBSET Found, Cardinality(H) <= MaxHits + 1
    PROVE  \/ Newest(H) = H /\ Cardinality(H) <= MaxHits
           \/ \E y \in H : /\ Newest(H) = H \ {y}
                           /\ Cardinality(H) = MaxHits + 1
                           /\ \A t \in H \ {y} : LastUsed[t] > LastUsed[y]
<1>1. /\ MaxHits \in Nat /\ IsFiniteSet(H) /\ Cardinality(H) \in Nat
      /\ Newest(H) = {s \in H : Cardinality(Above(H, s)) < MaxHits}
    BY FS_Subset, FS_CardinalityType DEF Newest, Above
<1>2. CASE Cardinality(H) <= MaxHits
  <2>1. \A s \in H : Cardinality(Above(H, s)) < MaxHits
    <3> SUFFICES ASSUME NEW s \in H PROVE Cardinality(Above(H, s)) < MaxHits
      OBVIOUS
    <3>1. /\ Cardinality(Above(H, s)) \in Nat
          /\ Cardinality(Above(H, s)) <= Cardinality(H) - 1
      BY AboveIsSmaller
    <3>2. QED
      BY <1>1, <1>2, <3>1
  <2>2. QED
    BY <1>1, <1>2, <2>1
<1>3. CASE Cardinality(H) = MaxHits + 1
  <2>1. PICK y \in H : Above(H, y) = H \ {y}
    BY <1>3, OneIsOldest
  <2>2. Cardinality(Above(H, y)) = MaxHits
    <3>1. Cardinality(H \ {y}) = Cardinality(H) - 1
      BY AboveIsSmaller
    <3>2. QED
      BY <1>1, <1>3, <2>1, <3>1
  <2>3. \A t \in H \ {y} : LastUsed[t] > LastUsed[y]
    BY <2>1 DEF Above
  <2>4. ASSUME NEW s \in H \ {y}
        PROVE  Cardinality(Above(H, s)) < MaxHits
    <3>1. y \notin Above(H, s) /\ y \in H \ {s}
      BY <2>3, <2>4 DEF Above
    <3>2. /\ Cardinality(Above(H, s)) \in Nat
          /\ Cardinality(Above(H, s)) <= Cardinality(H) - 1
          /\ Cardinality(Above(H, s)) = Cardinality(H) - 1 =>
                  Above(H, s) = H \ {s}
      BY <2>4, AboveIsSmaller
    <3>3. Cardinality(Above(H, s)) # MaxHits
      BY <1>1, <1>3, <3>1, <3>2
    <3>4. QED
      BY <1>1, <1>3, <3>2, <3>3
  <2>5. Newest(H) = H \ {y}
    BY <1>1, <2>2, <2>4
  <2>6. QED
    BY <1>3, <2>3, <2>5
<1>4. QED
    BY <1>1, <1>2, <1>3

(* Scanning one more Session keeps the newest of all that were scanned. *)
LEMMA TopStep ==
    ASSUME NEW scanned \in SUBSET Found, NEW hits, Top(hits, scanned),
           NEW x \in Found, x \notin scanned
    PROVE  Top(Newest(hits \cup {x}), scanned \cup {x})
<1> DEFINE H == hits \cup {x}
           new == Newest(H)
<1>1. /\ hits \in SUBSET Found /\ H \in SUBSET Found /\ x \notin hits
      /\ hits \subseteq scanned
    BY DEF Top
<1>2. /\ IsFiniteSet(hits) /\ Cardinality(hits) \in Nat /\ MaxHits \in Nat
      /\ IsFiniteSet(H) /\ Cardinality(H) = Cardinality(hits) + 1
    BY <1>1, FS_Subset, FS_CardinalityType, FS_AddElement
<1>3. Cardinality(hits) <= MaxHits
    BY DEF Top
<1> SUFFICES Top(new, scanned \cup {x})
    OBVIOUS
<1> HIDE DEF new
<1>4. CASE new = H /\ Cardinality(H) <= MaxHits
  <2>1. hits = scanned
    BY <1>2, <1>4 DEF Top
  <2>2. new = scanned \cup {x} /\ Cardinality(new) <= MaxHits
    BY <1>4, <2>1
  <2>3. QED
    BY <2>2 DEF Top
<1>5. ASSUME NEW y \in H, new = H \ {y}, Cardinality(H) = MaxHits + 1,
             \A t \in H \ {y} : LastUsed[t] > LastUsed[y]
      PROVE  Top(new, scanned \cup {x})
  <2>1. Cardinality(new) = MaxHits
    <3>1. Cardinality(H \ {y}) = Cardinality(H) - 1
      BY <1>1, AboveIsSmaller
    <3>2. QED
      BY <1>2, <1>5, <3>1
  <2>2. new \subseteq scanned \cup {x}
    BY <1>1, <1>5
  <2>3. ASSUME NEW s \in (scanned \cup {x}) \ new, NEW t \in new
        PROVE  LastUsed[t] > LastUsed[s]
    <3>1. CASE s = y
      BY <1>5, <2>3, <3>1
    <3>2. CASE s # y
      <4>1. s \in scanned \ hits
        BY <1>5, <2>3, <3>2
      <4>2. \A u \in hits : LastUsed[u] > LastUsed[s]
        BY <4>1 DEF Top
      <4>3. CASE t \in hits
        BY <4>2, <4>3
      <4>4. CASE t = x
        <5>1. y \in hits
          BY <1>5, <2>3, <4>4
        <5>2. LastUsed[x] > LastUsed[y] /\ LastUsed[y] > LastUsed[s]
          BY <1>5, <2>3, <4>2, <4>4, <5>1
        <5>3. LastUsed[x] \in Nat /\ LastUsed[y] \in Nat /\ LastUsed[s] \in Nat
          BY <1>1, <4>1, <5>1
        <5>4. QED
          BY <4>4, <5>2, <5>3
      <4>5. QED
        BY <1>5, <2>3, <4>3, <4>4
    <3>3. QED
      BY <3>1, <3>2
  <2>4. QED
    BY <1>2, <2>1, <2>2, <2>3 DEF Top
<1>6. Cardinality(H) <= MaxHits + 1
    BY <1>2, <1>3
<1> HIDE DEF H
<1>7. \/ new = H /\ Cardinality(H) <= MaxHits
      \/ \E y \in H : /\ new = H \ {y} /\ Cardinality(H) = MaxHits + 1
                      /\ \A t \in H \ {y} : LastUsed[t] > LastUsed[y]
    BY <1>1, <1>6, NewestOf DEF new
<1>8. CASE \E y \in H : /\ new = H \ {y} /\ Cardinality(H) = MaxHits + 1
                        /\ \A t \in H \ {y} : LastUsed[t] > LastUsed[y]
  <2>1. PICK y \in H : /\ new = H \ {y} /\ Cardinality(H) = MaxHits + 1
                       /\ \A t \in H \ {y} : LastUsed[t] > LastUsed[y]
    BY <1>8
  <2>2. QED
    BY <1>5, <2>1
<1>9. QED
    BY <1>4, <1>7, <1>8

\* ------------------------------------------------------------- the invariant

\* A read that goes on, and what remains of one.
ReadRecord ==
    [kind : {"diff", "search"}, app : Nat, owner : ReadOwners, revision : Nat,
     scope : SUBSET ReadOwners, token : BOOLEAN, asked : BOOLEAN,
     abandoned : BOOLEAN, worker : {"reading", "read", "cancelled", "failed"},
     left : SUBSET Found, unread : SUBSET Found, hits : SUBSET Found, matched : Nat,
     more : BOOLEAN, event : {NoEvent}, silent : BOOLEAN]
Answer ==
    [kind : {"diff", "search"}, event : {"completed", "stale", "cancelled", "failed"},
     hits : SUBSET Found, unread : SUBSET Found, more : BOOLEAN, worker : {"done"}]

\* What may be shown of a catalogue to an owner, and the Sessions of a scope.
ScopeOf(owner, c) == IF owner = General THEN {General} \cap c ELSE c \ {General}
AllOf(scope) == {s \in Found : OwnerOf[s] \in scope}

\* What a scan has read: neither what is left, nor what could not be read.
Read(r) == AllOf(r.scope) \ (r.left \cup r.unread)

\* A scan keeps the newest of what it has read, and has counted that.
Scanned(r) ==
    /\ r.left \subseteq AllOf(r.scope) /\ r.unread \cap r.left = {}
    /\ Top(r.hits, Read(r)) /\ r.matched = Cardinality(Read(r))

\* A read began under a revision; nothing but a silent change made its scope
\* wrong as long as that revision stands.
Good(r, rev, c) ==
    /\ r \in ReadRecord
    /\ r.revision <= rev
    /\ r.revision = rev /\ ~r.silent => r.scope \subseteq ScopeOf(r.owner, c)
    /\ r.asked => r.token
    /\ r.kind = "search" => Scanned(r)
    /\ r.kind = "diff" => r.left = {} /\ r.hits = {}
    /\ r.worker = "read" => r.left = {} /\ r.more = (r.matched > MaxHits)

ReadOrAnswer(r, rev, c) == r \in Answer \/ Good(r, rev, c)

\* The Applications, of which one is selected.
Applications ==
    /\ IsFiniteSet(DOMAIN ownerOfApp) /\ DOMAIN ownerOfApp \subseteq Nat
    /\ \A a \in DOMAIN ownerOfApp : ownerOfApp[a] \in ReadOwners
    /\ selected \in DOMAIN ownerOfApp

ReadsInv ==
    /\ Applications /\ revision \in Nat
    /\ bridge \in {"open", "closing", "closed", "failed"}
    /\ bridge \in {"closed", "failed"} => Live = {}
    /\ \A o \in Numbers : ReadOrAnswer(reads[o], revision, catalogue)

\* ------------------------------------------- what a step makes of one read

(* A read is right whatever happens to the catalogue, if the revision counts
   it or the read hears of it. *)
LEMMA ReadKept ==
    ASSUME NEW r, NEW rev \in Nat, NEW c, NEW rev2 \in Nat, NEW c2,
           ReadOrAnswer(r, rev, c), (rev2 = rev /\ c2 = c) \/ rev2 > rev
    PROVE  ReadOrAnswer(r, rev2, c2)
<1>1. CASE r \in Answer
    BY <1>1 DEF ReadOrAnswer
<1>2. CASE Good(r, rev, c)
  <2>1. r \in ReadRecord /\ r.revision <= rev /\ r.revision \in Nat
    BY <1>2 DEF Good, ReadRecord
  <2>2. CASE rev2 > rev
    <3>1. r.revision <= rev2 /\ r.revision # rev2
      BY <2>1, <2>2
    <3>2. QED
      BY <1>2, <3>1 DEF Good, ReadOrAnswer
  <2>3. CASE rev2 = rev /\ c2 = c
    BY <1>2, <2>3 DEF ReadOrAnswer
  <2>4. QED
    BY <2>2, <2>3
<1>3. QED
    BY <1>1, <1>2 DEF ReadOrAnswer

LEMMA ReadSilenced ==
    ASSUME NEW r, NEW rev \in Nat, NEW c, NEW c2, Good(r, rev, c)
    PROVE  /\ Good([r EXCEPT !.silent = TRUE], rev, c2)
           /\ [r EXCEPT !.silent = TRUE].event = r.event
<1> DEFINE q == [r EXCEPT !.silent = TRUE]
<1>1. r \in ReadRecord
    BY DEF Good
<1>2. /\ q \in ReadRecord /\ q.silent = TRUE /\ q.event = r.event
      /\ q.revision = r.revision /\ q.scope = r.scope /\ q.owner = r.owner
      /\ q.token = r.token /\ q.asked = r.asked /\ q.kind = r.kind
      /\ q.left = r.left /\ q.unread = r.unread /\ q.hits = r.hits
      /\ q.matched = r.matched /\ q.worker = r.worker /\ q.more = r.more
    BY <1>1 DEF ReadRecord
<1> HIDE DEF q
<1>3. Good(q, rev, c2)
    BY <1>2 DEF Good, Scanned, Read
<1>4. QED
    BY <1>2, <1>3 DEF q

\* What NewRead makes of the Application that is selected.
Begun(kind, app, owner, rev, scope) ==
    [kind |-> kind, app |-> app, owner |-> owner, revision |-> rev, scope |-> scope,
     token |-> FALSE, asked |-> FALSE, abandoned |-> FALSE, worker |-> "reading",
     left |-> IF kind = "search" THEN AllOf(scope) ELSE {},
     unread |-> {}, hits |-> {}, matched |-> 0, more |-> FALSE, event |-> NoEvent, silent |-> FALSE]

LEMMA NewReadIsBegun ==
    ASSUME NEW kind, NEW scope
    PROVE  NewRead(kind, scope) = Begun(kind, selected, CurrentOwner, revision', scope)
BY DEF NewRead, Begun, AllOf

LEMMA BegunIsGood ==
    ASSUME NEW kind \in {"diff", "search"}, NEW app \in Nat, NEW owner \in ReadOwners,
           NEW rev \in Nat, NEW scope \in SUBSET ReadOwners, NEW c,
           scope \subseteq ScopeOf(owner, c)
    PROVE  Good(Begun(kind, app, owner, rev, scope), rev, c)
<1> DEFINE r == Begun(kind, app, owner, rev, scope)
<1>1. AllOf(scope) \in SUBSET Found /\ MaxHits \in Nat
    BY DEF AllOf
<1>2. r \in ReadRecord
    BY <1>1 DEF Begun, ReadRecord
<1>3. /\ r.kind = kind /\ r.owner = owner /\ r.revision = rev /\ r.scope = scope
      /\ r.left = (IF kind = "search" THEN AllOf(scope) ELSE {})
      /\ r.unread = {} /\ r.hits = {} /\ r.matched = 0 /\ r.asked = FALSE
      /\ r.worker = "reading"
    BY DEF Begun
<1> HIDE DEF r
<1>4. Cardinality({}) = 0
    BY FS_EmptySet
<1>5. kind = "search" => Scanned(r)
    BY <1>1, <1>3, <1>4 DEF Scanned, Read, Top
<1>6. Good(r, rev, c)
    BY <1>2, <1>3, <1>5 DEF Good
<1>7. QED
    BY <1>6 DEF r

\* -------------------------------------------------- what a step makes of all

\* No read is lost, and none that goes on gets its answer.
Continue ==
    \A o \in Numbers : /\ o \in DOMAIN reads'
                       /\ reads[o].event = NoEvent => reads'[o].event = NoEvent

LEMMA LiveIsGood ==
    ASSUME ReadsInv, NEW o \in Numbers
    PROVE  /\ o \in Live => Good(reads[o], revision, catalogue)
           /\ o \notin Live => reads[o] \in Answer
           /\ o \in Live <=> reads[o].event = NoEvent
<1>1. reads[o] \in Answer \/ Good(reads[o], revision, catalogue)
    BY DEF ReadsInv, ReadOrAnswer
<1>2. CASE reads[o] \in Answer
  <2>1. reads[o].event # NoEvent
    BY <1>2 DEF Answer
  <2>2. QED
    BY <1>2, <2>1 DEF Live, Ongoing
<1>3. CASE Good(reads[o], revision, catalogue)
  <2>1. reads[o].event = NoEvent /\ reads[o].kind \in {"diff", "search"}
    BY <1>3 DEF Good, ReadRecord
  <2>2. QED
    BY <1>3, <2>1 DEF Live, Ongoing
<1>4. QED
    BY <1>1, <1>2, <1>3

(* A step that changes one read, into another that is right. *)
LEMMA OneReadChanges ==
    ASSUME ReadsInv, NEW o \in Live, NEW r, ReadOrAnswer(r, revision, catalogue),
           reads' = [reads EXCEPT ![o] = r],
           UNCHANGED <<bridge, selected, ownerOfApp, catalogue, revision>>
    PROVE  /\ ReadsInv'
           /\ r.event = NoEvent => Continue
<1>1. o \in Numbers /\ DOMAIN reads' = Numbers
    BY DEF Live, Ongoing, Numbers
<1>2. \A n \in Numbers : reads'[n] = IF n = o THEN r ELSE reads[n]
    BY DEF Numbers
<1>3. \A n \in Numbers' : ReadOrAnswer(reads[n], revision, catalogue)'
    BY <1>1, <1>2 DEF ReadsInv, Numbers
<1>4. bridge \in {"open", "closing"} /\ revision \in Nat
    BY DEF ReadsInv
<1>5. Applications'
    BY DEF ReadsInv, Applications
<1>6. ReadsInv'
    BY <1>3, <1>4, <1>5 DEF ReadsInv
<1>7. r.event = NoEvent => Continue
    BY <1>1, <1>2 DEF Continue
<1>8. QED
    BY <1>6, <1>7

(* A step of the open bridge that keeps every read or silences it. *)
LEMMA OpenStep ==
    ASSUME ReadsInv, Open, Applications', bridge' = bridge, revision' \in Nat,
           \A n \in DOMAIN reads' : ReadOrAnswer(reads'[n], revision', catalogue')
    PROVE  ReadsInv'
<1>1. bridge' = "open"
    BY DEF Open
<1>2. \A n \in Numbers' : ReadOrAnswer(reads[n], revision, catalogue)'
    BY DEF Numbers
<1>3. QED
    BY <1>1, <1>2 DEF ReadsInv

\* -------------------------------------------------------- the open bridge

LEMMA CurrentIsOwned ==
    ASSUME ReadsInv, Open
    PROVE  selected \in Nat /\ selected \in DOMAIN ownerOfApp /\ CurrentOwner \in ReadOwners
BY DEF ReadsInv, Applications, Open, CurrentOwner

(* The table after a request that started a read, or none. *)
LEMMA TableWith ==
    ASSUME NEW table, NEW rev, NEW c, NEW r, Good(r, rev, c),
           \A o \in DOMAIN table : ReadOrAnswer(table[o], rev, c)
    PROVE  /\ \A o \in DOMAIN Add(table, r) : ReadOrAnswer(Add(table, r)[o], rev, c)
           /\ \A o \in DOMAIN table : /\ o \in DOMAIN Add(table, r)
                                      /\ Add(table, r)[o] = table[o]
<1>1. \A o \in DOMAIN Add(table, r) :
        Add(table, r)[o] = IF o \in DOMAIN table THEN table[o] ELSE r
    BY DEF Add
<1>2. DOMAIN table \subseteq DOMAIN Add(table, r)
    BY DEF Add
<1>3. QED
    BY <1>1, <1>2 DEF ReadOrAnswer

LEMMA TableSilenced ==
    ASSUME ReadsInv, NEW c
    PROVE  /\ DOMAIN Silently(c) = Numbers
           /\ \A o \in Numbers : /\ ReadOrAnswer(Silently(c)[o], revision, c)
                                 /\ reads[o].event = NoEvent => Silently(c)[o].event = NoEvent
<1>1. /\ DOMAIN Silently(c) = Numbers
      /\ \A o \in Numbers :
           Silently(c)[o] = IF o \in Live /\ c # catalogue
                              THEN [reads[o] EXCEPT !.silent = TRUE] ELSE reads[o]
    BY DEF Silently
<1>2. ASSUME NEW o \in Numbers
      PROVE  /\ ReadOrAnswer(Silently(c)[o], revision, c)
             /\ reads[o].event = NoEvent => Silently(c)[o].event = NoEvent
  <2>1. revision \in Nat
    BY DEF ReadsInv
  <2>2. CASE o \in Live /\ c # catalogue
    <3>1. Good(reads[o], revision, catalogue)
      BY <2>2, LiveIsGood
    <3>2. /\ Good([reads[o] EXCEPT !.silent = TRUE], revision, c)
          /\ [reads[o] EXCEPT !.silent = TRUE].event = reads[o].event
      BY <2>1, <3>1, ReadSilenced
    <3>3. QED
      BY <1>1, <2>2, <3>2 DEF ReadOrAnswer
  <2>3. CASE o \in Live /\ c = catalogue
    BY <1>1, <2>3, LiveIsGood DEF ReadOrAnswer
  <2>4. CASE o \notin Live
    BY <1>1, <2>4, LiveIsGood DEF ReadOrAnswer
  <2>5. QED
    BY <2>2, <2>3, <2>4
<1>3. QED
    BY <1>1, <1>2

(* workspace.diff counts every change of the catalogue that it brings. *)
LEMMA WorkspaceDiffSteps ==
    ASSUME ReadsInv, NEW c \in SUBSET ReadOwners, NEW p \in ReadOwners, WorkspaceDiff(c, p)
    PROVE  ReadsInv' /\ Continue
<1>1. Open /\ Mode(selected) = "coding" /\ bridge' = bridge /\ Applications'
    BY DEF WorkspaceDiff, ReadsInv, Applications
<1>2. /\ catalogue' = c /\ revision \in Nat /\ revision' \in Nat
      /\ (revision' = revision /\ c = catalogue) \/ revision' > revision
    BY DEF WorkspaceDiff, SetCatalogue, ReadsInv
<1>3. \A o \in DOMAIN reads : ReadOrAnswer(reads[o], revision', c)
    BY <1>2, ReadKept DEF ReadsInv, Numbers
<1>4. CASE reads' = reads
    BY <1>1, <1>2, <1>3, <1>4, OpenStep DEF Continue, Numbers
<1>5. CASE p \in c \ {General} /\ reads' = Add(reads, NewRead("diff", {p}))
  <2>1. selected \in Nat /\ CurrentOwner \in ReadOwners
    BY <1>1, CurrentIsOwned
  <2>2. CurrentOwner # General
    BY <1>1 DEF Mode, CurrentOwner
  <2>3. {p} \subseteq ScopeOf(CurrentOwner, c) /\ {p} \in SUBSET ReadOwners
    BY <1>5, <2>2 DEF ScopeOf
  <2>4. Good(Begun("diff", selected, CurrentOwner, revision', {p}), revision', c)
    BY <1>2, <2>1, <2>3, BegunIsGood
  <2> DEFINE new == NewRead("diff", {p})
  <2>5. Good(new, revision', c)
    BY <2>4, NewReadIsBegun
  <2>0. reads' = Add(reads, new)
    BY <1>5
  <2> HIDE DEF new
  <2>6. /\ \A o \in DOMAIN reads' : ReadOrAnswer(reads'[o], revision', c)
        /\ \A o \in DOMAIN reads : o \in DOMAIN reads' /\ reads'[o] = reads[o]
    <3>1. /\ \A o \in DOMAIN Add(reads, new) : ReadOrAnswer(Add(reads, new)[o], revision', c)
          /\ \A o \in DOMAIN reads : /\ o \in DOMAIN Add(reads, new)
                                     /\ Add(reads, new)[o] = reads[o]
      BY <1>3, <2>5, TableWith
    <3>2. QED
      BY <2>0, <3>1
  <2>7. QED
    BY <1>1, <1>2, <2>6, OpenStep DEF Continue, Numbers
<1>6. QED
    BY <1>4, <1>5 DEF WorkspaceDiff

(* session.search does not; the reads that go on hear of it in the model. *)
LEMMA SessionSearchSteps ==
    ASSUME ReadsInv, NEW c \in SUBSET ReadOwners, SessionSearch(c)
    PROVE  ReadsInv' /\ Continue
<1> DEFINE scope == IF CurrentOwner = General THEN {General} \cap c ELSE c \ {General}
<1>1. /\ Open /\ bridge' = bridge /\ Applications' /\ revision \in Nat
      /\ catalogue' = c /\ revision' = revision
    BY DEF SessionSearch, SetCatalogue, ReadsInv, Applications
<1>2. /\ DOMAIN Silently(c) = Numbers
      /\ \A o \in Numbers : /\ ReadOrAnswer(Silently(c)[o], revision, c)
                            /\ reads[o].event = NoEvent => Silently(c)[o].event = NoEvent
    BY TableSilenced
<1>3. CASE reads' = Silently(c)
    BY <1>1, <1>2, <1>3, OpenStep DEF Continue
<1>4. CASE reads' = Add(Silently(c), NewRead("search", scope))
  <2>1. selected \in Nat /\ CurrentOwner \in ReadOwners
    BY <1>1, CurrentIsOwned
  <2>2. scope = ScopeOf(CurrentOwner, c) /\ scope \in SUBSET ReadOwners
    BY DEF ScopeOf
  <2> HIDE DEF scope
  <2>3. Good(Begun("search", selected, CurrentOwner, revision, scope), revision, c)
    BY <1>1, <2>1, <2>2, BegunIsGood
  <2>4. Good(NewRead("search", scope), revision, c)
    BY <1>1, <2>3, NewReadIsBegun
  <2>5. /\ \A o \in DOMAIN reads' : ReadOrAnswer(reads'[o], revision, c)
        /\ \A o \in Numbers : o \in DOMAIN reads' /\ reads'[o] = Silently(c)[o]
    BY <1>2, <1>4, <2>4, TableWith
  <2>6. QED
    BY <1>1, <1>2, <2>5, OpenStep DEF Continue
<1>5. QED
    BY <1>3, <1>4 DEF SessionSearch

(* One more Application is selected, and the reads that go on are kept if that
   counts as a new revision or the catalogue stays. *)
LEMMA SelectSteps ==
    ASSUME ReadsInv, Open, NEW p \in ReadOwners, SelectNew(p), revision' \in Nat,
           (revision' = revision /\ catalogue' = catalogue) \/ revision' > revision
    PROVE  ReadsInv' /\ Continue
<1> DEFINE k == Cardinality(DOMAIN ownerOfApp) + 1
<1>1. bridge' = bridge /\ reads' = reads /\ revision \in Nat
    BY DEF SelectNew, ReadsInv
<1>2. IsFiniteSet(DOMAIN ownerOfApp) /\ k \in Nat
    BY FS_CardinalityType DEF ReadsInv, Applications
<1>3. IsFiniteSet(DOMAIN ownerOfApp \cup {k})
    BY <1>2, FS_AddElement
<1>4. /\ DOMAIN ownerOfApp' = DOMAIN ownerOfApp \cup {k} /\ selected' = k
      /\ \A a \in DOMAIN ownerOfApp' :
           ownerOfApp'[a] = IF a \in DOMAIN ownerOfApp THEN ownerOfApp[a] ELSE p
    BY DEF SelectNew
<1> HIDE DEF k
<1>5. Applications'
    BY <1>2, <1>3, <1>4 DEF ReadsInv, Applications
<1>6. \A o \in DOMAIN reads' : ReadOrAnswer(reads'[o], revision', catalogue')
    BY <1>1, ReadKept DEF ReadsInv, Numbers
<1>7. QED
    BY <1>1, <1>5, <1>6, OpenStep DEF Continue, Numbers

(* A project that is opened is a new revision; the other mode, initialised, is
   one or two; a Session of the owner on screen is none. *)
LEMMA NewAppSteps ==
    ASSUME ReadsInv, Open, NEW p \in ReadOwners, NEW c, NewApp(p, c)
    PROVE  ReadsInv' /\ Continue
<1>1. SelectNew(p) /\ revision \in Nat /\ revision' = revision + 1
    BY DEF NewApp, SetCatalogue, ReadsInv
<1>2. revision' \in Nat /\ revision' > revision
    BY <1>1
<1>3. QED
    BY <1>1, <1>2, SelectSteps

LEMMA InitializeOtherSteps ==
    ASSUME ReadsInv, NEW p \in ReadOwners, NEW c, InitializeOther(p, c)
    PROVE  ReadsInv' /\ Continue
<1>1. /\ Open /\ SelectNew(p) /\ revision \in Nat
      /\ revision' = revision + 1 \/ revision' = revision + 2
    BY DEF InitializeOther, ReadsInv
<1>2. revision' \in Nat /\ revision' > revision
    BY <1>1
<1>3. QED
    BY <1>1, <1>2, SelectSteps

LEMMA SessionNewSteps ==
    ASSUME ReadsInv, SessionNew
    PROVE  ReadsInv' /\ Continue
<1>1. /\ Open /\ SelectNew(CurrentOwner) /\ revision' \in Nat
      /\ revision' = revision /\ catalogue' = catalogue
    BY DEF SessionNew, ReadsInv
<1>2. CurrentOwner \in ReadOwners
    BY <1>1, CurrentIsOwned
<1>3. QED
    BY <1>1, <1>2, SelectSteps

(* Requests that take over a catalogue or select another Application. *)
LEMMA OtherRequestsStep ==
    ASSUME ReadsInv, NEW c, NEW mode,
           \/ GeneralOpen(c) \/ RuntimeInitialize(c, mode)
           \/ \E a \in DOMAIN ownerOfApp : ActivateRuntime(a)
    PROVE  ReadsInv' /\ Continue
<1>0. revision \in Nat
    BY DEF ReadsInv
<1>1. CASE GeneralOpen(c)
  <2>1. CASE NewApp(General, c)
    BY <1>1, <2>1, NewAppSteps DEF GeneralOpen
  <2>2. CASE /\ SetCatalogue(c \cup {General}, FALSE) /\ reads' = Silently(c \cup {General})
             /\ UNCHANGED <<bridge, selected, ownerOfApp, serving, errors>>
    <3>1. Open /\ bridge' = bridge /\ Applications'
      BY <1>1, <2>2 DEF GeneralOpen, ReadsInv, Applications
    <3>2. revision' = revision /\ catalogue' = c \cup {General}
      BY <2>2 DEF SetCatalogue
    <3>3. QED
      BY <1>0, <2>2, <3>1, <3>2, TableSilenced, OpenStep DEF Continue
  <2>3. QED
    BY <1>1, <2>1, <2>2 DEF GeneralOpen
<1>2. CASE RuntimeInitialize(c, mode)
  <2>1. /\ Open /\ bridge' = bridge /\ Applications' /\ reads' = reads
    BY <1>2 DEF RuntimeInitialize, ReadsInv, Applications
  <2>2. /\ revision' \in Nat
        /\ (revision' = revision /\ catalogue' = catalogue) \/ revision' > revision
    BY <1>0, <1>2 DEF RuntimeInitialize, SetCatalogue
  <2>3. \A o \in DOMAIN reads' : ReadOrAnswer(reads'[o], revision', catalogue')
    BY <1>0, <2>1, <2>2, ReadKept DEF ReadsInv, Numbers
  <2>4. QED
    BY <2>1, <2>2, <2>3, OpenStep DEF Continue, Numbers
<1>3. CASE \E a \in DOMAIN ownerOfApp : ActivateRuntime(a)
  <2>1. /\ Open /\ bridge' = bridge /\ reads' = reads
        /\ revision' = revision /\ catalogue' = catalogue
        /\ ownerOfApp' = ownerOfApp /\ selected' \in DOMAIN ownerOfApp
    BY <1>3 DEF ActivateRuntime
  <2>2. Applications'
    BY <2>1 DEF ReadsInv, Applications
  <2>3. \A o \in DOMAIN reads' : ReadOrAnswer(reads'[o], revision', catalogue')
    BY <2>1 DEF ReadsInv, Numbers
  <2>4. QED
    BY <1>0, <2>1, <2>2, <2>3, OpenStep DEF Continue, Numbers
<1>4. QED
    BY <1>1, <1>2, <1>3

\* ---------------------------------------------------------- one read at a time

Touched(r, token, asked, abandoned, worker) ==
    [r EXCEPT !.token = token, !.asked = asked, !.abandoned = abandoned, !.worker = worker]

(* Cancelling, shutting down and the ends of a thread change the token and the
   thread's state, not what was read. *)
LEMMA TouchedIsGood ==
    ASSUME NEW r, NEW rev, NEW c, Good(r, rev, c), NEW token \in BOOLEAN,
           NEW asked \in BOOLEAN, NEW abandoned \in BOOLEAN,
           NEW worker \in {"cancelled", "failed", r.worker}, r.asked \/ asked => token
    PROVE  /\ Good(Touched(r, token, asked, abandoned, worker), rev, c)
           /\ Touched(r, token, asked, abandoned, worker).event = NoEvent
<1> DEFINE q == Touched(r, token, asked, abandoned, worker)
<1>1. r \in ReadRecord
    BY DEF Good
<1>2. /\ q \in ReadRecord /\ q.token = token /\ q.asked = asked
      /\ q.worker = worker /\ q.revision = r.revision /\ q.silent = r.silent
      /\ q.scope = r.scope /\ q.owner = r.owner /\ q.kind = r.kind
      /\ q.left = r.left /\ q.unread = r.unread /\ q.hits = r.hits
      /\ q.matched = r.matched /\ q.more = r.more /\ q.event = NoEvent
  <2>1. q \in ReadRecord
    BY <1>1 DEF Touched, ReadRecord
  <2>2. q.token = token /\ q.asked = asked /\ q.worker = worker
    BY <1>1 DEF Touched, ReadRecord
  <2>3. /\ q.revision = r.revision /\ q.silent = r.silent
        /\ q.scope = r.scope /\ q.owner = r.owner /\ q.kind = r.kind
    BY <1>1 DEF Touched, ReadRecord
  <2>4. /\ q.left = r.left /\ q.unread = r.unread /\ q.hits = r.hits
        /\ q.matched = r.matched /\ q.more = r.more
    BY <1>1 DEF Touched, ReadRecord
  <2>5. q.event = NoEvent
    BY <1>1 DEF Touched, ReadRecord
  <2>6. QED
    BY <2>1, <2>2, <2>3, <2>4, <2>5
<1> HIDE DEF q
<1>3. Good(q, rev, c)
    BY <1>2 DEF Good, Scanned, Read
<1>4. QED
    BY <1>2, <1>3 DEF q

(* The steps that end a thread early, ask a read to end, or give it up. *)
LEMMA TouchesOneRead ==
    ASSUME ReadsInv, NEW o \in Numbers,
           CancelRead(o) \/ ThreadIsCancelled(o) \/ ThreadFails(o) \/ ShutdownTimesOut(o)
    PROVE  ReadsInv' /\ Continue
<1> DEFINE r == reads[o]
<1>1. o \in Live /\ UNCHANGED <<bridge, selected, ownerOfApp, catalogue, revision>>
    BY DEF CancelRead, ThreadIsCancelled, ThreadFails, ShutdownTimesOut, ThreadOf
<1>2. Good(r, revision, catalogue)
    BY <1>1, LiveIsGood
<1>3. r \in ReadRecord /\ (r.asked => r.token)
    BY <1>2 DEF Good
<1>4. PICK token \in BOOLEAN, asked \in BOOLEAN, abandoned \in BOOLEAN,
           worker \in {"cancelled", "failed", r.worker} :
        /\ r.asked \/ asked => token
        /\ reads' = [reads EXCEPT ![o] = Touched(r, token, asked, abandoned, worker)]
  <2>0. /\ r.token \in BOOLEAN /\ r.asked \in BOOLEAN /\ r.abandoned \in BOOLEAN
        /\ r.worker \in {"reading", "read", "cancelled", "failed"}
    BY <1>3 DEF ReadRecord
  <2>1. CASE CancelRead(o)
    <3>1. [r EXCEPT !.token = TRUE, !.asked = TRUE] =
            Touched(r, TRUE, TRUE, r.abandoned, r.worker)
      BY <1>3 DEF ReadRecord, Touched
    <3>2. reads' = [reads EXCEPT ![o] = [r EXCEPT !.token = TRUE, !.asked = TRUE]]
      BY <2>1 DEF CancelRead
    <3>3. QED
      BY <2>0, <3>1, <3>2
  <2>2. CASE ThreadIsCancelled(o)
    <3>1. [r EXCEPT !.worker = "cancelled"] =
            Touched(r, r.token, r.asked, r.abandoned, "cancelled")
      BY <1>3 DEF ReadRecord, Touched
    <3>2. reads' = [reads EXCEPT ![o] = [r EXCEPT !.worker = "cancelled"]]
      BY <2>2 DEF ThreadIsCancelled
    <3>3. QED
      BY <1>3, <2>0, <3>1, <3>2
  <2>3. CASE ThreadFails(o)
    <3>1. [r EXCEPT !.worker = "failed"] =
            Touched(r, r.token, r.asked, r.abandoned, "failed")
      BY <1>3 DEF ReadRecord, Touched
    <3>2. reads' = [reads EXCEPT ![o] = [r EXCEPT !.worker = "failed"]]
      BY <2>3 DEF ThreadFails
    <3>3. QED
      BY <1>3, <2>0, <3>1, <3>2
  <2>4. CASE ShutdownTimesOut(o)
    <3>1. [r EXCEPT !.abandoned = TRUE, !.token = TRUE] =
            Touched(r, TRUE, r.asked, TRUE, r.worker)
      BY <1>3 DEF ReadRecord, Touched
    <3>2. reads' = [reads EXCEPT ![o] = [r EXCEPT !.abandoned = TRUE, !.token = TRUE]]
      BY <2>4 DEF ShutdownTimesOut
    <3>3. QED
      BY <2>0, <3>1, <3>2
  <2>5. QED
    BY <2>1, <2>2, <2>3, <2>4
<1> DEFINE q == Touched(r, token, asked, abandoned, worker)
<1>5. Good(q, revision, catalogue) /\ q.event = NoEvent
  <2>1. r.asked \/ asked => token
    BY <1>4
  <2>2. QED
    BY <1>2, <2>1, TouchedIsGood
<1>6. reads' = [reads EXCEPT ![o] = q]
    BY <1>4
<1> HIDE DEF q
<1>7. QED
    BY <1>1, <1>5, <1>6, OneReadChanges DEF ReadOrAnswer

(* A search scans one Session after the other, and reads it. *)
LEMMA ScanOneSteps ==
    ASSUME ReadsInv, NEW o \in Numbers, ScanOne(o)
    PROVE  ReadsInv' /\ Continue
<1> DEFINE r == reads[o]
           seen == Read(r)
<1>1. o \in Live /\ UNCHANGED <<bridge, selected, ownerOfApp, catalogue, revision>>
    BY DEF ScanOne, ThreadOf
<1>2. Good(r, revision, catalogue) /\ r.worker = "reading"
    BY <1>1, LiveIsGood DEF ScanOne, ThreadOf
<1>3. PICK s \in r.left :
        reads' = [reads EXCEPT ![o].left = @ \ {s}, ![o].hits = Newest(@ \cup {s}), ![o].matched = @ + 1]
    BY DEF ScanOne
<1> DEFINE q == [r EXCEPT !.left = @ \ {s}, !.hits = Newest(@ \cup {s}), !.matched = @ + 1]
<1>4. reads' = [reads EXCEPT ![o] = q]
    BY <1>3
<1>5. r \in ReadRecord /\ r.kind = "search" /\ Scanned(r)
    BY <1>2, <1>3 DEF Good, ReadRecord
<1>6. /\ s \in AllOf(r.scope) /\ s \in Found /\ s \notin r.unread
      /\ r.left \subseteq AllOf(r.scope) /\ r.unread \cap r.left = {}
    BY <1>3, <1>5 DEF Scanned, AllOf
<1>7. seen \in SUBSET Found /\ s \notin seen
    BY <1>3 DEF Read, AllOf
<1>8. Top(r.hits, seen) /\ r.matched = Cardinality(seen) /\ r.matched \in Nat
    BY <1>5 DEF Scanned, ReadRecord
<1>9. AllOf(r.scope) \ ((r.left \ {s}) \cup r.unread) = seen \cup {s}
    BY <1>3, <1>6 DEF Read
<1> HIDE DEF seen
<1>10. Top(Newest(r.hits \cup {s}), seen \cup {s})
    BY <1>6, <1>7, <1>8, TopStep
<1>11. r.matched + 1 = Cardinality(seen \cup {s}) /\ r.matched + 1 \in Nat
  <2>1. IsFiniteSet(seen)
    BY <1>7, FS_Subset
  <2>2. Cardinality(seen \cup {s}) = Cardinality(seen) + 1
    BY <1>7, <2>1, FS_AddElement
  <2>3. QED
    BY <1>8, <2>2
<1>12. Newest(r.hits \cup {s}) \in SUBSET Found
    BY <1>6, <1>7, <1>10 DEF Top
<1>13. /\ q \in ReadRecord /\ q.left = r.left \ {s} /\ q.unread = r.unread
       /\ q.hits = Newest(r.hits \cup {s})
       /\ q.matched = r.matched + 1 /\ q.token = r.token /\ q.asked = r.asked
       /\ q.worker = "reading" /\ q.revision = r.revision /\ q.silent = r.silent
       /\ q.scope = r.scope /\ q.owner = r.owner /\ q.kind = "search" /\ q.event = NoEvent
    BY <1>2, <1>5, <1>11, <1>12 DEF ReadRecord
<1> HIDE DEF q
<1>14. Read(q) = seen \cup {s}
    BY <1>9, <1>13 DEF Read
<1>15. Scanned(q)
    BY <1>6, <1>10, <1>11, <1>13, <1>14 DEF Scanned
<1>16. Good(q, revision, catalogue)
    BY <1>2, <1>13, <1>15 DEF Good
<1>17. QED
    BY <1>1, <1>4, <1>13, <1>16, OneReadChanges DEF ReadOrAnswer

(* What it cannot read is counted apart. *)
LEMMA ScanFailsSteps ==
    ASSUME ReadsInv, NEW o \in Numbers, ScanFails(o)
    PROVE  ReadsInv' /\ Continue
<1> DEFINE r == reads[o]
<1>1. o \in Live /\ UNCHANGED <<bridge, selected, ownerOfApp, catalogue, revision>>
    BY DEF ScanFails, ThreadOf
<1>2. Good(r, revision, catalogue) /\ r.worker = "reading"
    BY <1>1, LiveIsGood DEF ScanFails, ThreadOf
<1>3. PICK s \in r.left :
        reads' = [reads EXCEPT ![o].left = @ \ {s}, ![o].unread = @ \cup {s}]
    BY DEF ScanFails
<1> DEFINE q == [r EXCEPT !.left = @ \ {s}, !.unread = @ \cup {s}]
<1>4. reads' = [reads EXCEPT ![o] = q]
    BY <1>3
<1>5. r \in ReadRecord /\ r.kind = "search" /\ Scanned(r)
    BY <1>2, <1>3 DEF Good, ReadRecord
<1>6. r.left \subseteq AllOf(r.scope) /\ r.unread \cap r.left = {} /\ s \in Found
    BY <1>3, <1>5 DEF Scanned, ReadRecord
<1>7. /\ q \in ReadRecord /\ q.left = r.left \ {s} /\ q.unread = r.unread \cup {s}
      /\ q.hits = r.hits /\ q.matched = r.matched /\ q.token = r.token /\ q.asked = r.asked
      /\ q.worker = "reading" /\ q.revision = r.revision /\ q.silent = r.silent
      /\ q.scope = r.scope /\ q.owner = r.owner /\ q.kind = "search" /\ q.event = NoEvent
    BY <1>2, <1>5, <1>6 DEF ReadRecord
<1> HIDE DEF q
<1>8. (r.left \ {s}) \cup (r.unread \cup {s}) = r.left \cup r.unread
    BY <1>3
<1>9. Read(q) = Read(r)
    BY <1>7, <1>8 DEF Read
<1>10. Scanned(q)
    BY <1>5, <1>6, <1>7, <1>9 DEF Scanned
<1>11. Good(q, revision, catalogue)
    BY <1>2, <1>7, <1>10 DEF Good
<1>12. QED
    BY <1>1, <1>4, <1>7, <1>11, OneReadChanges DEF ReadOrAnswer

LEMMA ThreadEndsSteps ==
    ASSUME ReadsInv, NEW o \in Numbers, ThreadEnds(o)
    PROVE  ReadsInv' /\ Continue
<1> DEFINE r == reads[o]
           q == [r EXCEPT !.worker = "read", !.more = r.matched > MaxHits]
<1>1. /\ o \in Live /\ UNCHANGED <<bridge, selected, ownerOfApp, catalogue, revision>>
      /\ r.left = {} /\ reads' = [reads EXCEPT ![o] = q]
    BY DEF ThreadEnds, ThreadOf
<1>2. Good(r, revision, catalogue)
    BY <1>1, LiveIsGood
<1>3. r \in ReadRecord /\ (r.matched > MaxHits) \in BOOLEAN
    BY <1>2 DEF Good
<1>4. /\ q \in ReadRecord /\ q.left = {} /\ q.unread = r.unread /\ q.hits = r.hits
      /\ q.matched = r.matched /\ q.more = (r.matched > MaxHits)
      /\ q.token = r.token /\ q.asked = r.asked
      /\ q.worker = "read" /\ q.revision = r.revision /\ q.silent = r.silent
      /\ q.scope = r.scope /\ q.owner = r.owner /\ q.kind = r.kind /\ q.event = NoEvent
    BY <1>1, <1>3 DEF ReadRecord
<1> HIDE DEF q
<1>5. Good(q, revision, catalogue)
    BY <1>1, <1>2, <1>4 DEF Good, Scanned, Read
<1>6. QED
    BY <1>1, <1>4, <1>5, OneReadChanges DEF ReadOrAnswer

(* The task decides and answers. *)
LEMMA TaskEndsSteps ==
    ASSUME ReadsInv, NEW o \in Numbers, TaskEnds(o)
    PROVE  /\ ReadsInv' /\ Good(reads[o], revision, catalogue)
           /\ reads' = [reads EXCEPT ![o] = Answered(reads[o], Outcome(reads[o]))]
<1> DEFINE r == reads[o]
           q == Answered(r, Outcome(r))
<1>1. /\ o \in Live /\ UNCHANGED <<bridge, selected, ownerOfApp, catalogue, revision>>
      /\ reads' = [reads EXCEPT ![o] = q]
    BY DEF TaskEnds
<1>2. Good(r, revision, catalogue) /\ r \in ReadRecord
    BY <1>1, LiveIsGood DEF Good
<1>3. Outcome(r) \in {"completed", "stale", "cancelled", "failed"}
    BY DEF Outcome
<1>4. q \in Answer
    BY <1>2, <1>3 DEF Answered, Answer, ReadRecord
<1> HIDE DEF q
<1>5. ReadsInv'
    BY <1>1, <1>4, OneReadChanges DEF ReadOrAnswer
<1>6. QED
    BY <1>1, <1>2, <1>5 DEF q

(* Closing asks every read to end; the Applications go when all have. *)
LEMMA ShutdownSteps ==
    ASSUME ReadsInv, Shutdown
    PROVE  ReadsInv' /\ Continue
<1>1. /\ bridge = "open" /\ bridge' = "closing" /\ revision \in Nat
      /\ UNCHANGED <<selected, ownerOfApp, catalogue, revision>>
      /\ reads' = [n \in Numbers |-> IF n \in Live THEN [reads[n] EXCEPT !.token = TRUE] ELSE reads[n]]
    BY DEF Shutdown, Open, ReadsInv
<1>2. ASSUME NEW o \in Numbers
      PROVE  /\ o \in DOMAIN reads' /\ ReadOrAnswer(reads'[o], revision, catalogue)
             /\ reads[o].event = NoEvent => reads'[o].event = NoEvent
  <2>1. CASE o \in Live
    <3> DEFINE r == reads[o]
               q == Touched(r, TRUE, r.asked, r.abandoned, r.worker)
    <3>1. Good(r, revision, catalogue)
      BY <2>1, LiveIsGood
    <3>2. /\ r \in ReadRecord /\ r.asked \in BOOLEAN /\ r.abandoned \in BOOLEAN
      BY <3>1 DEF Good, ReadRecord
    <3>3. q = [r EXCEPT !.token = TRUE]
      BY <3>2 DEF Touched, ReadRecord
    <3>4. Good(q, revision, catalogue) /\ q.event = NoEvent
      BY <3>1, <3>2, TouchedIsGood, ZenonT(40)
    <3>5. QED
      BY <1>1, <2>1, <3>3, <3>4 DEF ReadOrAnswer
  <2>2. CASE o \notin Live
    BY <1>1, <2>2, LiveIsGood DEF ReadOrAnswer
  <2>3. QED
    BY <2>1, <2>2
<1>3. DOMAIN reads' = Numbers
    BY <1>1
<1>4. \A n \in Numbers' : ReadOrAnswer(reads[n], revision, catalogue)'
    BY <1>1, <1>2, <1>3 DEF Numbers
<1>5. Applications'
    BY <1>1 DEF ReadsInv, Applications
<1>6. QED
    BY <1>1, <1>2, <1>4, <1>5 DEF ReadsInv, Continue

LEMMA CloseApplicationsSteps ==
    ASSUME ReadsInv, CloseApplications
    PROVE  ReadsInv' /\ Continue
<1>1. /\ bridge' \in {"closed", "failed"} /\ Live = {}
      /\ UNCHANGED <<selected, ownerOfApp, catalogue, revision, reads>>
    BY DEF CloseApplications
<1>2. Live' = Live /\ Numbers' = Numbers
    BY <1>1 DEF Live, Ongoing, Numbers
<1>3. Applications'
    BY <1>1 DEF ReadsInv, Applications
<1>4. QED
    BY <1>1, <1>2, <1>3 DEF ReadsInv, Continue, Numbers

\* -------------------------------------------------------------- the theorems

LEMMA ReadsStart == ReadsInit => ReadsInv
<1> SUFFICES ASSUME ReadsInit PROVE ReadsInv
    OBVIOUS
<1>1. PICK p \in ReadOwners : ownerOfApp = [a \in {1} |-> p]
    BY DEF ReadsInit
<1>2. IsFiniteSet({1}) /\ DOMAIN ownerOfApp = {1} /\ selected = 1 /\ 1 \in Nat
    BY <1>1, FS_Singleton DEF ReadsInit
<1>3. Applications
    BY <1>1, <1>2 DEF Applications
<1>4. Numbers = {} /\ bridge = "open" /\ revision = 1
    BY DEF ReadsInit, Numbers
<1>5. QED
    BY <1>3, <1>4 DEF ReadsInv

(* Every step but the answer of a task. *)
LEMMA ReadsStepOrAnswer ==
    ASSUME ReadsInv, ReadsNext
    PROVE  ReadsInv' /\ (Continue \/ \E o \in Numbers : TaskEnds(o))
<1>1. ASSUME NEW c \in SUBSET ReadOwners, NEW p \in ReadOwners,
             WorkspaceDiff(c, p) \/ ProjectOpen(p, c) \/ InitializeOther(p, c)
      PROVE  ReadsInv' /\ Continue
    BY <1>1, WorkspaceDiffSteps, NewAppSteps, InitializeOtherSteps DEF ProjectOpen
<1>11. ASSUME NEW c \in SUBSET ReadOwners,
              \/ \E mode \in {"coding", "general"} : RuntimeInitialize(c, mode)
              \/ SessionSearch(c) \/ GeneralOpen(c)
       PROVE  ReadsInv' /\ Continue
    BY <1>11, SessionSearchSteps, OtherRequestsStep
<1>12. CASE SessionNew
    BY <1>12, SessionNewSteps
<1>2. CASE \E a \in DOMAIN ownerOfApp : ActivateRuntime(a)
    BY <1>2, OtherRequestsStep
<1>3. ASSUME NEW o \in Numbers,
             CancelRead(o) \/ ThreadIsCancelled(o) \/ ThreadFails(o) \/ ShutdownTimesOut(o)
      PROVE  ReadsInv' /\ Continue
    BY <1>3, TouchesOneRead
<1>4. ASSUME NEW o \in Numbers, ScanOne(o) \/ ScanFails(o) \/ ThreadEnds(o)
      PROVE  ReadsInv' /\ Continue
    BY <1>4, ScanOneSteps, ScanFailsSteps, ThreadEndsSteps
<1>5. ASSUME NEW o \in Numbers, TaskEnds(o)
      PROVE  ReadsInv'
    BY <1>5, TaskEndsSteps
<1>6. CASE Shutdown \/ CloseApplications
    BY <1>6, ShutdownSteps, CloseApplicationsSteps
<1>7. QED
    BY <1>1, <1>11, <1>12, <1>2, <1>3, <1>4, <1>5, <1>6 DEF ReadsNext

LEMMA ReadsStutter == ASSUME ReadsInv, UNCHANGED readsVars PROVE ReadsInv'
<1>1. /\ UNCHANGED <<bridge, selected, ownerOfApp, catalogue, revision, reads>>
    BY DEF readsVars
<1>2. Numbers' = Numbers /\ Live' = Live /\ Applications'
    BY <1>1 DEF Numbers, Live, Ongoing, ReadsInv, Applications
<1>3. QED
    BY <1>1, <1>2 DEF ReadsInv

(* The invariant of the reads: what each has seen so far, and under which
   revision of the catalogue its scope was right. *)
THEOREM ReadsInvariant == ReadsSpec => []ReadsInv
<1>1. ReadsInit => ReadsInv
    BY ReadsStart
<1>2. ReadsInv /\ [ReadsNext]_readsVars => ReadsInv'
    BY ReadsStepOrAnswer, ReadsStutter
<1>3. QED
    BY <1>1, <1>2, PTL DEF ReadsSpec

(* When the bridge has closed its Applications, every read was answered and no
   thread of one runs (the shutdown of bridge.py waits for the tasks, and a
   task for its thread). *)
THEOREM ReadersAreGone == ReadsSpec => []NoReaderOutlives
<1>1. ReadsInv => NoReaderOutlives
  <2> SUFFICES ASSUME ReadsInv, bridge \in {"closed", "failed"}, NEW o \in Numbers
               PROVE  Live = {} /\ reads[o].worker # "reading"
    BY DEF NoReaderOutlives, ReadsInv
  <2>1. Live = {}
    BY DEF ReadsInv
  <2>2. reads[o] \in Answer
    BY <2>1, LiveIsGood
  <2>3. QED
    BY <2>1, <2>2 DEF Answer
<1>2. QED
    BY <1>1, ReadsInvariant, PTL

(* A search that has scanned everything shows the newest of all that could be
   read, and knows whether that is all. *)
LEMMA CompleteIsNewest ==
    ASSUME NEW r, NEW rev, NEW c, Good(r, rev, c), r.kind = "search", r.worker = "read"
    PROVE  /\ \A s \in Read(r) \ r.hits :
                Cardinality({t \in r.hits : LastUsed[t] > LastUsed[s]}) = MaxHits
           /\ r.more = (r.hits # Read(r)) /\ r.hits \subseteq Read(r)
           /\ Read(r) = {s \in Found \ r.unread : OwnerOf[s] \in r.scope}
<1> DEFINE all == Read(r)
<1>1. r.left = {} /\ all \in SUBSET Found
    BY DEF Good, Read, AllOf
<1>2. /\ Top(r.hits, all) /\ r.matched = Cardinality(all) /\ r.more = (r.matched > MaxHits)
    BY DEF Good, Scanned
<1>0. all = {s \in Found \ r.unread : OwnerOf[s] \in r.scope}
    BY <1>1 DEF Read, AllOf
<1> HIDE DEF all
<1>3. IsFiniteSet(all) /\ Cardinality(all) \in Nat /\ MaxHits \in Nat
    BY <1>1, FS_Subset, FS_CardinalityType
<1>4. CASE r.hits = all
    BY <1>0, <1>2, <1>3, <1>4 DEF Top, all
<1>5. CASE r.hits # all
  <2>1. /\ Cardinality(r.hits) = MaxHits /\ r.hits \subseteq all
        /\ \A s \in all \ r.hits, t \in r.hits : LastUsed[t] > LastUsed[s]
    BY <1>2, <1>5 DEF Top
  <2>2. ASSUME NEW s \in all \ r.hits
        PROVE  Cardinality({t \in r.hits : LastUsed[t] > LastUsed[s]}) = MaxHits
    <3>1. {t \in r.hits : LastUsed[t] > LastUsed[s]} = r.hits
      BY <2>1
    <3>2. QED
      BY <2>1, <3>1
  <2>3. Cardinality(r.hits) # Cardinality(all) /\ Cardinality(r.hits) <= Cardinality(all)
    BY <1>3, <1>5, <2>1, FS_Subset
  <2>4. r.matched > MaxHits
    BY <1>2, <1>3, <2>1, <2>3
  <2>5. QED
    BY <1>0, <1>2, <1>5, <2>1, <2>2, <2>4 DEF all
<1>6. QED
    BY <1>4, <1>5

(* A read is answered as completed only if nobody cancelled it, and only with
   what the owner on screen may see; a search with the newest of all that
   match (_finish_workspace_diff and _finish_session_search of bridge.py). *)
THEOREM AnswersHold == ReadsSpec => AnswersAreCurrent
<1> DEFINE Current(o) ==
       reads'[o].event = "completed" =>
       /\ ~reads[o].asked /\ selected = reads[o].app
       /\ \/ reads[o].silent
          \/ {OwnerOf[s] : s \in reads'[o].hits} \cup (IF reads[o].kind = "diff" THEN reads[o].scope ELSE {})
               \subseteq CurrentSearchScope
       /\ reads[o].kind = "search" =>
            LET all == {s \in Found \ reads'[o].unread : OwnerOf[s] \in reads[o].scope}
                hits == reads'[o].hits
            IN /\ \A s \in all \ hits : Cardinality({t \in hits : LastUsed[t] > LastUsed[s]}) = MaxHits
               /\ reads'[o].more = (hits # all)
<1>1. ASSUME ReadsInv, NEW n \in Numbers, TaskEnds(n), NEW o \in Live
      PROVE  Current(o)
  <2> SUFFICES ASSUME reads'[o].event = "completed" PROVE Current(o)
    OBVIOUS
  <2> DEFINE r == reads[o]
  <2>1. /\ Good(reads[n], revision, catalogue) /\ o \in Numbers
        /\ reads' = [reads EXCEPT ![n] = Answered(reads[n], Outcome(reads[n]))]
    BY <1>1, TaskEndsSteps DEF Live, Ongoing
  <2>2. o = n
    <3>1. o # n => reads'[o] = reads[o]
      BY <2>1 DEF Numbers
    <3>2. reads[o].event = NoEvent
      BY <1>1, <2>1, LiveIsGood
    <3>3. QED
      BY <3>1, <3>2
  <2>3. Good(r, revision, catalogue) /\ reads'[o] = Answered(r, Outcome(r))
    BY <2>1, <2>2 DEF Numbers
  <2>4. /\ Outcome(r) = "completed" /\ reads'[o].hits = r.hits
        /\ reads'[o].unread = r.unread /\ reads'[o].more = (TRUE /\ r.more)
    BY <2>3 DEF Answered
  <2>5. /\ r.worker = "read" /\ ~r.token /\ selected = r.app
        /\ CurrentOwner = r.owner /\ revision = r.revision
    <3>1. ~(r.abandoned \/ r.token)
      BY <2>4 DEF Outcome
    <3>2. r.worker = "read"
      BY <2>4, <3>1 DEF Outcome
    <3>3. ~IsStale(r)
      BY <2>4, <3>1, <3>2 DEF Outcome
    <3>4. QED
      BY <3>1, <3>2, <3>3 DEF IsStale
  <2>6. r \in ReadRecord /\ ~r.asked /\ (r.silent \/ r.scope \subseteq ScopeOf(r.owner, catalogue))
    BY <2>3, <2>5 DEF Good
  <2>7. ScopeOf(r.owner, catalogue) = CurrentSearchScope
    BY <2>5 DEF ScopeOf, CurrentSearchScope
  <2>8. CASE r.kind = "diff"
    <3>1. r.hits = {}
      BY <2>3, <2>8 DEF Good
    <3>2. QED
      BY <2>4, <2>5, <2>6, <2>7, <2>8, <3>1
  <2>9. CASE r.kind = "search"
    <3>1. /\ \A s \in Read(r) \ r.hits :
               Cardinality({t \in r.hits : LastUsed[t] > LastUsed[s]}) = MaxHits
          /\ r.more = (r.hits # Read(r)) /\ r.hits \subseteq Read(r)
          /\ Read(r) = {s \in Found \ r.unread : OwnerOf[s] \in r.scope}
      BY <2>3, <2>5, <2>9, CompleteIsNewest
    <3>3. {OwnerOf[s] : s \in r.hits} \subseteq r.scope
      BY <3>1
    <3>4. r.silent \/ {OwnerOf[s] : s \in r.hits} \cup {} \subseteq CurrentSearchScope
      BY <2>6, <2>7, <3>3
    <3>5. reads'[o].more = (r.hits # Read(r))
      BY <2>4, <3>1
    <3>6. QED
      BY <2>4, <2>5, <2>6, <2>9, <3>1, <3>4, <3>5
  <2>10. QED
    BY <2>6, <2>8, <2>9 DEF ReadRecord
<1>2. ASSUME ReadsInv, Continue, NEW o \in Live
      PROVE  Current(o)
  <2>1. o \in Numbers
    BY DEF Live, Ongoing
  <2>2. reads'[o].event = NoEvent
    BY <1>2, <2>1, LiveIsGood DEF Continue
  <2>3. QED
    BY <2>2
<1>3. ReadsInv /\ ReadsNext => \A o \in Live : Current(o)
    BY <1>1, <1>2, ReadsStepOrAnswer
<1>4. ReadsInv /\ [ReadsNext]_readsVars => [\A o \in Live : Current(o)]_readsVars
    BY <1>3
<1>5. QED
    BY <1>4, ReadsInvariant, PTL DEF AnswersAreCurrent, ReadsSpec

\* ------------------------------------------------- the Runtime and its child

HIDE ReadsAssumption
USE LinkAssumption

Lines ==
    {l \in [type : {"response", "state", "garbage"}, id : Nat,
            state : {"none", "stopped", "failed"}] : l.type = "state" => l.state # "none"}
ChildRecord ==
    [life : {"running", "stillborn", "dead", "exited", "closed"},
     bridge : {"ready", "stopped", "failed", "gone"}, eof : BOOLEAN,
     input : Seq(Nat), output : Seq(Lines)]
RequestRecord == [kind : {"call", "stop"}, outcome : {"waiting", "settled", "closed for"}]
ClosingRecord ==
    [step : {"no", "asked", "end", "wait", "terminated", "killed"},
     call : Nat, child : Nat, waits : Nat]

\* The requests an answer may still come for.
Asked == pending \cup timedOut

LinkTyped ==
    /\ runtime \in {"idle", "ready", "stopping", "stopped", "failed"}
    /\ children \in Seq(ChildRecord) /\ child \in 0..Len(children)
    /\ issued \in Seq(RequestRecord) /\ Asked \subseteq 1..Len(issued)
    /\ closing \in ClosingRecord /\ closing.waits <= Len(children)

\* A request is in the input or was answered in the output, and once at most.
AwaitedOnce(in, out, asked) ==
    /\ \A k \in 1..Len(in) : in[k] \in asked
    /\ \A k \in 1..Len(out) : out[k].type = "response" => out[k].id \in asked
    /\ \A j, k \in 1..Len(in) : in[j] = in[k] => j = k
    /\ \A j, k \in 1..Len(out) :
         out[j].type = "response" /\ out[k].type = "response" /\ out[j].id = out[k].id => j = k
    /\ \A j \in 1..Len(in), k \in 1..Len(out) : out[k].type = "response" => in[j] # out[k].id

ReadyHasAChild ==
    runtime = "ready" => child # 0 /\ children[child].life \in {"running", "dead", "stillborn"}
StoppingIsClosing == runtime = "stopping" => closing.step # "no"
TheGoneLeaveNobody ==
    closing.step = "no" /\ (child # 0 => children[child].life \in {"exited", "closed"}) =>
      pending = {}
WaitsForItsChild == Waiting => child \in {0, closing.waits}
TheClosedAreSilent ==
    \A c \in DOMAIN children : children[c].life = "closed" => children[c].output = <<>>
AnswersAreAwaited ==
    \A c \in DOMAIN children : c = child /\ runtime = "ready" /\ Running(c) =>
      AwaitedOnce(children[c].input, children[c].output, Asked)

LinkInv ==
    /\ LinkTyped /\ OwnedUntilClosed /\ TheClosedAreSilent
    /\ ReadyHasAChild /\ StoppingIsClosing
    /\ TheGoneLeaveNobody /\ WaitsForItsChild /\ LateAnswersAreHarmless /\ AnswersAreAwaited

(* One child is replaced. *)
LEMMA OneChild ==
    ASSUME NEW S, NEW s \in Seq(S), NEW i \in DOMAIN s, NEW x \in S
    PROVE  LET t == [s EXCEPT ![i] = x] IN
           /\ t \in Seq(S) /\ Len(t) = Len(s) /\ DOMAIN t = DOMAIN s
           /\ \A j \in DOMAIN s : t[j] = IF j = i THEN x ELSE s[j]
<1>1. DOMAIN s = 1..Len(s)
    OBVIOUS
<1>2. [s EXCEPT ![i] = x] \in [1..Len(s) -> S]
    BY <1>1
<1>3. [s EXCEPT ![i] = x] \in Seq(S) /\ Len([s EXCEPT ![i] = x]) = Len(s)
    BY <1>2
<1>4. QED
    BY <1>1, <1>3

(* Lines that are written together. *)
LEMMA WrittenTogether ==
    ASSUME NEW S, NEW s \in Seq(S), NEW a \in S, NEW b \in S
    PROVE  Append(s, a) = s \o <<a>> /\ Append(Append(s, a), b) = s \o <<a, b>>
<1>1. /\ Append(s, a) \in Seq(S) /\ Append(Append(s, a), b) \in Seq(S)
      /\ s \o <<a>> \in Seq(S) /\ s \o <<a, b>> \in Seq(S) /\ Len(s) \in Nat
    OBVIOUS
<1>2. /\ Len(Append(s, a)) = Len(s) + 1 /\ Len(s \o <<a>>) = Len(s) + 1
      /\ Len(Append(Append(s, a), b)) = Len(s) + 2 /\ Len(s \o <<a, b>>) = Len(s) + 2
    OBVIOUS
<1>3. \A k \in 1..Len(s) + 1 : Append(s, a)[k] = (s \o <<a>>)[k]
    OBVIOUS
<1>4. \A k \in 1..Len(s) + 2 : Append(Append(s, a), b)[k] = (s \o <<a, b>>)[k]
    OBVIOUS
<1>5. QED
    BY <1>1, <1>2, <1>3, <1>4, SeqEqual

\* ------------------------------------------------------ lines and what awaits them

LEMMA LineWritten ==
    ASSUME NEW in \in Seq(Nat), NEW out \in Seq(Lines), NEW asked, NEW l \in Lines,
           AwaitedOnce(in, out, asked), l.type # "response"
    PROVE  AwaitedOnce(in, Append(out, l), asked)
<1>1. /\ Len(Append(out, l)) = Len(out) + 1
      /\ \A k \in 1..Len(out) + 1 : Append(out, l)[k] = IF k <= Len(out) THEN out[k] ELSE l
    OBVIOUS
<1>2. \A k \in 1..Len(Append(out, l)) : Append(out, l)[k].type = "response" =>
        k \in 1..Len(out) /\ Append(out, l)[k] = out[k]
  <2> SUFFICES ASSUME NEW k \in 1..Len(Append(out, l)), Append(out, l)[k].type = "response"
               PROVE  k \in 1..Len(out) /\ Append(out, l)[k] = out[k]
    OBVIOUS
  <2>1. Len(out) \in Nat /\ k \in 1..Len(out) + 1 /\ k \in Nat
    BY <1>1
  <2>2. k <= Len(out)
    BY <1>1, <2>1
  <2>3. QED
    BY <1>1, <2>1, <2>2
<1> DEFINE more == Append(out, l)
<1>3. \A k \in 1..Len(more) : more[k].type = "response" => k \in 1..Len(out) /\ more[k] = out[k]
    BY <1>2
<1> HIDE DEF more
<1>4. AwaitedOnce(in, more, asked)
    BY <1>3 DEF AwaitedOnce
<1>5. QED
    BY <1>4 DEF more

(* The first request is answered. *)
LEMMA RequestAnswered ==
    ASSUME NEW in \in Seq(Nat), in # <<>>, NEW out \in Seq(Lines), NEW asked,
           AwaitedOnce(in, out, asked), NEW l \in Lines,
           l.type = "response", l.id = Head(in)
    PROVE  AwaitedOnce(Tail(in), Append(out, l), asked)
<1> DEFINE rest == Tail(in)
           more == Append(out, l)
<1>1. /\ Len(more) = Len(out) + 1 /\ Len(out) \in Nat /\ more[Len(out) + 1] = l
      /\ \A k \in 1..Len(out) : more[k] = out[k]
    OBVIOUS
<1>2. /\ Len(in) \in Nat /\ Len(in) > 0 /\ l.id = in[1] /\ Len(rest) = Len(in) - 1
      /\ \A k \in 1..Len(rest) : rest[k] = in[k + 1]
    OBVIOUS
<1> HIDE DEF rest, more
<1>3. \A k \in 1..Len(rest) : rest[k] \in asked
  <2> SUFFICES ASSUME NEW k \in 1..Len(rest) PROVE rest[k] \in asked
    OBVIOUS
  <2>1. k + 1 \in 1..Len(in) /\ rest[k] = in[k + 1]
    BY <1>2
  <2>2. QED
    BY <2>1 DEF AwaitedOnce
<1>4. \A k \in 1..Len(more) : more[k].type = "response" => more[k].id \in asked
  <2>1. in[1] \in asked
    BY <1>2 DEF AwaitedOnce
  <2>2. \A k \in 1..Len(out) : out[k].type = "response" => out[k].id \in asked
    BY DEF AwaitedOnce
  <2>3. \A k \in 1..Len(more) : k \in 1..Len(out) \/ k = Len(out) + 1
    BY <1>1
  <2>4. QED
    BY <1>1, <1>2, <2>1, <2>2, <2>3
<1>5. \A j, k \in 1..Len(rest) : rest[j] = rest[k] => j = k
  <2> SUFFICES ASSUME NEW j \in 1..Len(rest), NEW k \in 1..Len(rest), rest[j] = rest[k]
               PROVE  j = k
    OBVIOUS
  <2>1. j + 1 \in 1..Len(in) /\ k + 1 \in 1..Len(in) /\ in[j + 1] = in[k + 1]
    BY <1>2, SMTT(30)
  <2>2. j + 1 = k + 1
    BY <2>1 DEF AwaitedOnce
  <2>3. QED
    BY <1>2, <2>2
<1>6. \A j, k \in 1..Len(more) :
        more[j].type = "response" /\ more[k].type = "response" /\ more[j].id = more[k].id => j = k
  <2> SUFFICES ASSUME NEW j \in 1..Len(more), NEW k \in 1..Len(more), j # k,
                      more[j].type = "response", more[k].type = "response", more[j].id = more[k].id
               PROVE  FALSE
    OBVIOUS
  <2>1. \A n \in 1..Len(more) : n \in 1..Len(out) \/ n = Len(out) + 1
    BY <1>1
  <2>2. \A n \in 1..Len(out) : out[n].type = "response" => out[n].id # in[1]
    BY <1>2 DEF AwaitedOnce
  <2>3. CASE j \in 1..Len(out) /\ k \in 1..Len(out)
    BY <1>1, <2>3 DEF AwaitedOnce
  <2>4. CASE j = Len(out) + 1 /\ k \in 1..Len(out)
    BY <1>1, <1>2, <2>2, <2>4
  <2>5. CASE k = Len(out) + 1 /\ j \in 1..Len(out)
    BY <1>1, <1>2, <2>2, <2>5
  <2>6. QED
    BY <2>1, <2>3, <2>4, <2>5
<1>7. \A j \in 1..Len(rest), k \in 1..Len(more) : more[k].type = "response" => rest[j] # more[k].id
  <2> SUFFICES ASSUME NEW j \in 1..Len(rest), NEW k \in 1..Len(more), more[k].type = "response"
               PROVE  rest[j] # more[k].id
    OBVIOUS
  <2>1. j + 1 \in 1..Len(in) /\ 1 \in 1..Len(in) /\ rest[j] = in[j + 1] /\ j + 1 # 1
    BY <1>2
  <2>2. CASE k \in 1..Len(out)
    <3>1. more[k] = out[k]
      BY <1>1, <2>2
    <3>2. out[k].type = "response"
      BY <3>1
    <3>3. in[j + 1] # out[k].id
      BY <2>1, <2>2, <3>2 DEF AwaitedOnce
    <3>4. QED
      BY <2>1, <3>1, <3>3
  <2>3. CASE k = Len(out) + 1
    <3>1. in[j + 1] # in[1]
      BY <2>1 DEF AwaitedOnce
    <3>2. QED
      BY <1>1, <1>2, <2>1, <2>3, <3>1
  <2>4. QED
    BY <1>1, <2>2, <2>3
<1>8. AwaitedOnce(rest, more, asked)
    BY <1>3, <1>4, <1>5, <1>6, <1>7 DEF AwaitedOnce
<1>9. QED
    BY <1>8 DEF rest, more

LEMMA InputDropped ==
    ASSUME NEW in, NEW out, NEW asked, AwaitedOnce(in, out, asked)
    PROVE  AwaitedOnce(<<>>, out, asked)
BY DEF AwaitedOnce

LEMMA RequestWritten ==
    ASSUME NEW in \in Seq(Nat), NEW out \in Seq(Lines), NEW asked,
           AwaitedOnce(in, out, asked), NEW n \in Nat, n \notin asked
    PROVE  /\ AwaitedOnce(Append(in, n), out, asked \cup {n})
           /\ AwaitedOnce(in, out, asked \cup {n})
<1> DEFINE more == Append(in, n)
<1>1. /\ Len(more) = Len(in) + 1 /\ Len(in) \in Nat /\ more[Len(in) + 1] = n
      /\ \A k \in 1..Len(in) : more[k] = in[k]
    OBVIOUS
<1> HIDE DEF more
<1>2. \A k \in 1..Len(more) : k \in 1..Len(in) \/ k = Len(in) + 1
    BY <1>1
<1>3. /\ \A k \in 1..Len(in) : in[k] \in asked
      /\ \A k \in 1..Len(out) : out[k].type = "response" => out[k].id \in asked
      /\ \A j, k \in 1..Len(in) : in[j] = in[k] => j = k
      /\ \A j \in 1..Len(in), k \in 1..Len(out) : out[k].type = "response" => in[j] # out[k].id
    BY DEF AwaitedOnce
<1>4. \A k \in 1..Len(more) : more[k] \in asked \cup {n}
    BY <1>1, <1>2, <1>3
<1>5. \A j, k \in 1..Len(more) : more[j] = more[k] => j = k
  <2> SUFFICES ASSUME NEW j \in 1..Len(more), NEW k \in 1..Len(more), more[j] = more[k]
               PROVE  j = k
    OBVIOUS
  <2>1. CASE j \in 1..Len(in) /\ k \in 1..Len(in)
    BY <1>1, <1>3, <2>1
  <2>2. CASE j = Len(in) + 1 /\ k \in 1..Len(in)
    BY <1>1, <1>3, <2>2
  <2>3. CASE k = Len(in) + 1 /\ j \in 1..Len(in)
    BY <1>1, <1>3, <2>3
  <2>4. QED
    BY <1>2, <2>1, <2>2, <2>3
<1>6. \A j \in 1..Len(more), k \in 1..Len(out) : out[k].type = "response" => more[j] # out[k].id
    BY <1>1, <1>2, <1>3
<1>7. AwaitedOnce(more, out, asked \cup {n})
    BY <1>3, <1>4, <1>5, <1>6 DEF AwaitedOnce
<1>8. AwaitedOnce(in, out, asked \cup {n})
    BY DEF AwaitedOnce
<1>9. QED
    BY <1>7, <1>8 DEF more

(* A line that is read is no longer awaited, if it was an answer. *)
LEMMA LineRead ==
    ASSUME NEW in \in Seq(Nat), NEW out \in Seq(Lines), out # <<>>, NEW asked, NEW left,
           AwaitedOnce(in, out, asked), left \subseteq asked,
           \A n \in asked : n \in left \/ (Head(out).type = "response" /\ n = Head(out).id)
    PROVE  AwaitedOnce(in, Tail(out), left)
<1>1. /\ Len(out) \in Nat \ {0} /\ Len(Tail(out)) = Len(out) - 1 /\ Head(out) = out[1]
      /\ \A k \in 1..Len(out) - 1 : Tail(out)[k] = out[k + 1]
    OBVIOUS
<1> DEFINE later == Tail(out)
<1>2. \A k \in 1..Len(later) : k + 1 \in 1..Len(out) /\ 1 \in 1..Len(out)
                               /\ later[k] = out[k + 1] /\ k + 1 # 1
    BY <1>1
<1> HIDE DEF later
<1>3. \A k \in 1..Len(in) : in[k] \in left
  <2> SUFFICES ASSUME NEW k \in 1..Len(in)
               PROVE  in[k] \in left
    OBVIOUS
  <2>1. in[k] \in asked /\ (out[1].type = "response" => in[k] # out[1].id)
    BY <1>1 DEF AwaitedOnce
  <2>2. QED
    BY <1>1, <2>1
<1>4. \A k \in 1..Len(later) : later[k].type = "response" => later[k].id \in left
  <2> SUFFICES ASSUME NEW k \in 1..Len(later), later[k].type = "response"
               PROVE  later[k].id \in left
    OBVIOUS
  <2>1. out[k + 1].type = "response" /\ later[k].id = out[k + 1].id
    BY <1>2
  <2>2. out[k + 1].id \in asked
    BY <1>2, <2>1 DEF AwaitedOnce
  <2>3. ~(out[1].type = "response" /\ out[1].id = out[k + 1].id)
    BY <1>2, <2>1 DEF AwaitedOnce
  <2>4. QED
    BY <1>1, <2>1, <2>2, <2>3
<1>5. \A j, k \in 1..Len(in) : in[j] = in[k] => j = k
    BY DEF AwaitedOnce
<1>6. \A j, k \in 1..Len(later) :
        later[j].type = "response" /\ later[k].type = "response" /\ later[j].id = later[k].id => j = k
  <2> SUFFICES ASSUME NEW j \in 1..Len(later), NEW k \in 1..Len(later), later[j].type = "response",
                      later[k].type = "response", later[j].id = later[k].id
               PROVE  j = k
    OBVIOUS
  <2>1. j + 1 = k + 1
    <3>1. /\ j + 1 \in 1..Len(out) /\ k + 1 \in 1..Len(out)
          /\ out[j + 1].type = "response" /\ out[k + 1].type = "response"
          /\ out[j + 1].id = out[k + 1].id
      BY <1>2
    <3>2. \A a, b \in 1..Len(out) :
            out[a].type = "response" /\ out[b].type = "response" /\ out[a].id = out[b].id => a = b
      BY DEF AwaitedOnce
    <3>3. QED
      BY <3>1, <3>2
  <2>2. QED
    BY <2>1
<1>7. \A j \in 1..Len(in), k \in 1..Len(later) : later[k].type = "response" => in[j] # later[k].id
  <2> SUFFICES ASSUME NEW j \in 1..Len(in), NEW k \in 1..Len(later), later[k].type = "response"
               PROVE  in[j] # later[k].id
    OBVIOUS
  <2>1. /\ k + 1 \in 1..Len(out) /\ out[k + 1].type = "response"
        /\ later[k].id = out[k + 1].id
    BY <1>2
  <2>2. in[j] # out[k + 1].id
    BY <2>1 DEF AwaitedOnce
  <2>3. QED
    BY <2>1, <2>2
<1>8. QED
    BY <1>3, <1>4, <1>5, <1>6, <1>7 DEF AwaitedOnce, later

\* ---------------------------------------------------------- what the child does

LEMMA ChildFacts ==
    ASSUME LinkInv, NEW c \in DOMAIN children
    PROVE  /\ children \in Seq(ChildRecord) /\ DOMAIN children = 1..Len(children)
           /\ Len(children) \in Nat /\ children[c] \in ChildRecord
           /\ children[c].input \in Seq(Nat) /\ children[c].output \in Seq(Lines)
           /\ Running(c) => c = child
           /\ Running(c) /\ runtime = "ready" =>
                AwaitedOnce(children[c].input, children[c].output, Asked)
<1>1. children \in Seq(ChildRecord)
    BY DEF LinkInv, LinkTyped
<1>2. DOMAIN children = 1..Len(children) /\ children[c] \in ChildRecord
    BY <1>1
<1>3. children[c].input \in Seq(Nat) /\ children[c].output \in Seq(Lines)
    BY <1>2 DEF ChildRecord
<1>4. Running(c) => c = child
    BY DEF LinkInv, OwnedUntilClosed, Alive, Running, Owned
<1>5. QED
    BY <1>1, <1>2, <1>3, <1>4 DEF LinkInv, AnswersAreAwaited

(* A running child writes, reads, or ends. *)
LEMMA ChildStep ==
    ASSUME LinkInv, NEW c \in DOMAIN children, Running(c), NEW k \in ChildRecord,
           k.life \in {"running", "dead"}, children' = [children EXCEPT ![c] = k],
           k.life = "running" /\ runtime = "ready" => AwaitedOnce(k.input, k.output, Asked),
           UNCHANGED mainVars
    PROVE  LinkInv'
<1>1. /\ children' \in Seq(ChildRecord) /\ Len(children') = Len(children)
      /\ DOMAIN children' = DOMAIN children
      /\ \A j \in DOMAIN children : children'[j] = IF j = c THEN k ELSE children[j]
    BY ChildFacts, OneChild
<1>2. /\ UNCHANGED <<runtime, child, issued, pending, timedOut, closing, alarm>>
      /\ Asked' = Asked /\ (Waiting' <=> Waiting)
    BY DEF mainVars, Asked, Waiting
<1>3. c = child /\ children[c].life = "running" /\ child # 0
    BY ChildFacts DEF Running
<1>4. LinkTyped'
    BY <1>1, <1>2 DEF LinkInv, LinkTyped
<1>5. OwnedUntilClosed' /\ TheClosedAreSilent'
    BY <1>1, <1>2, <1>3 DEF LinkInv, OwnedUntilClosed, TheClosedAreSilent, Alive, Owned
<1>6. ReadyHasAChild' /\ StoppingIsClosing' /\ WaitsForItsChild' /\ LateAnswersAreHarmless'
    BY <1>1, <1>2, <1>3 DEF LinkInv, ReadyHasAChild, StoppingIsClosing, WaitsForItsChild,
       LateAnswersAreHarmless
<1>7. TheGoneLeaveNobody'
  <2>1. children'[child] = k
    BY <1>1, <1>3
  <2>2. QED
    BY <1>2, <1>3, <2>1 DEF TheGoneLeaveNobody
<1>8. AnswersAreAwaited'
    BY <1>1, <1>2, <1>3 DEF AnswersAreAwaited, Running
<1>9. QED
    BY <1>4, <1>5, <1>6, <1>7, <1>8 DEF LinkInv

LEMMA ChildActions ==
    ASSUME LinkInv, NEW c \in DOMAIN children,
           \/ Serve(c) \/ InputEnds(c) \/ FailedTurn(c) \/ Nonsense(c)
           \/ ProcessEnds(c) \/ ProcessCrashes(c)
    PROVE  LinkInv'
<1> DEFINE r == children[c]
           in == r.input
           out == r.output
<1>0. /\ Running(c) /\ UNCHANGED mainVars /\ r.life = "running"
      /\ r \in ChildRecord /\ in \in Seq(Nat) /\ out \in Seq(Lines)
      /\ runtime = "ready" => AwaitedOnce(in, out, Asked)
    BY ChildFacts DEF Serve, InputEnds, FailedTurn, Nonsense, ProcessEnds, ProcessCrashes, Running
<1>1. /\ StateLine("stopped") \in Lines /\ StateLine("failed") \in Lines /\ Garbage \in Lines
      /\ StateLine("stopped").type # "response" /\ StateLine("failed").type # "response"
      /\ Garbage.type # "response"
      /\ \A id \in Nat : Response(id) \in Lines /\ Response(id).type = "response" /\ Response(id).id = id
    BY DEF StateLine, Garbage, Response, Lines
<1>2. ASSUME NEW b \in {"ready", "stopped", "failed"}, NEW i \in Seq(Nat), NEW o \in Seq(Lines),
             runtime = "ready" => AwaitedOnce(i, o, Asked),
             children' = [children EXCEPT ![c] = [r EXCEPT !.bridge = b, !.input = i, !.output = o]]
      PROVE  LinkInv'
  <2> DEFINE k == [r EXCEPT !.bridge = b, !.input = i, !.output = o]
  <2>1. k \in ChildRecord /\ k.life = "running" /\ k.input = i /\ k.output = o
    BY <1>0 DEF ChildRecord
  <2>2. children' = [children EXCEPT ![c] = k]
    BY <1>2
  <2> HIDE DEF k
  <2>3. QED
    BY <1>0, <1>2, <2>1, <2>2, ChildStep
<1>3. ASSUME NEW s \in {"stopped", "failed"}
      PROVE  /\ Append(out, StateLine(s)) \in Seq(Lines)
             /\ runtime = "ready" => AwaitedOnce(in, Append(out, StateLine(s)), Asked)
    BY <1>0, <1>1, LineWritten
<1>4. CASE Serve(c)
  <2> DEFINE id == Head(in)
  <2>1. in # <<>> /\ id \in Nat /\ Tail(in) \in Seq(Nat)
    BY <1>0, <1>4 DEF Serve
  <2>2. CASE children' = [children EXCEPT ![c].input = Tail(@), ![c].output = Append(@, Response(id))]
    <3>1. /\ Append(out, Response(id)) \in Seq(Lines)
          /\ runtime = "ready" => AwaitedOnce(Tail(in), Append(out, Response(id)), Asked)
      BY <1>0, <1>1, <2>1, RequestAnswered, SMTT(30)
    <3>2. children' = [children EXCEPT ![c] = [r EXCEPT !.bridge = r.bridge, !.input = Tail(in),
                                                        !.output = Append(out, Response(id))]]
      BY <1>0, <2>2 DEF ChildRecord
    <3>3. r.bridge \in {"ready", "stopped", "failed"}
      BY <1>4 DEF Serve
    <3>4. QED
      BY <1>2, <2>1, <3>1, <3>2, <3>3
  <2>3. ASSUME NEW s \in {"stopped", "failed"}, Terminates(c, s, <<StateLine(s), Response(id)>>)
        PROVE  LinkInv'
    <3> DEFINE mid == Append(out, StateLine(s))
               new == Append(mid, Response(id))
    <3>1. mid \in Seq(Lines) /\ (runtime = "ready" => AwaitedOnce(in, mid, Asked))
      BY <1>3
    <3> HIDE DEF mid
    <3>2. /\ new \in Seq(Lines) /\ <<>> \in Seq(Nat)
          /\ runtime = "ready" => AwaitedOnce(<<>>, new, Asked)
      BY <1>0, <1>1, <2>1, <3>1, RequestAnswered, InputDropped, SMTT(60)
    <3>3. new = out \o <<StateLine(s), Response(id)>>
      BY <1>0, <1>1, <2>1, WrittenTogether, SMTT(60) DEF mid
    <3>4. children' = [children EXCEPT ![c] = [r EXCEPT !.bridge = s, !.input = <<>>, !.output = new]]
      BY <2>3, <3>3 DEF Terminates
    <3> HIDE DEF new
    <3>5. QED
      BY <1>2, <3>2, <3>4
  <2>4. QED
    BY <1>4, <2>2, <2>3 DEF Serve
<1>5. CASE InputEnds(c)
  <2>1. Append(out, StateLine("stopped")) = out \o <<StateLine("stopped")>>
    BY <1>0, <1>1, WrittenTogether
  <2>2. children' = [children EXCEPT ![c] = [r EXCEPT !.bridge = "stopped", !.input = <<>>,
                                                      !.output = Append(out, StateLine("stopped"))]]
    BY <1>5, <2>1 DEF InputEnds, Terminates
  <2>3. <<>> \in Seq(Nat) /\ in = <<>>
    BY <1>5 DEF InputEnds
  <2>4. QED
    BY <1>2, <1>3, <2>2, <2>3
<1>6. CASE FailedTurn(c) \/ Nonsense(c)
  <2>1. PICK l \in {StateLine("failed"), Garbage} : children' = [children EXCEPT ![c].output = Append(@, l)]
    BY <1>6 DEF FailedTurn, Nonsense
  <2>2. /\ Append(out, l) \in Seq(Lines)
        /\ runtime = "ready" => AwaitedOnce(in, Append(out, l), Asked)
    BY <1>0, <1>1, LineWritten
  <2> DEFINE k == [r EXCEPT !.output = Append(out, l)]
  <2>3. k \in ChildRecord /\ k.life = "running" /\ k.input = in /\ k.output = Append(out, l)
    BY <1>0, <2>2 DEF ChildRecord
  <2>4. children' = [children EXCEPT ![c] = k]
    BY <2>1
  <2> HIDE DEF k
  <2>5. QED
    BY <1>0, <2>2, <2>3, <2>4, ChildStep
<1>7. CASE ProcessEnds(c) \/ ProcessCrashes(c)
  <2>1. PICK o \in Seq(Lines) :
          children' = [children EXCEPT ![c] = [r EXCEPT !.life = "dead", !.bridge = "gone", !.input = <<>>,
                                                        !.eof = FALSE, !.output = o]]
    <3>1. CASE ProcessEnds(c)
      <4>1. [r EXCEPT !.life = "dead", !.bridge = "gone", !.input = <<>>, !.eof = FALSE] =
            [r EXCEPT !.life = "dead", !.bridge = "gone", !.input = <<>>, !.eof = FALSE, !.output = out]
        BY <1>0 DEF ChildRecord
      <4>2. QED
        BY <1>0, <3>1, <4>1 DEF ProcessEnds, Dead
    <3>2. CASE ProcessCrashes(c)
      <4>1. PICK n \in 0..Len(out), torn \in BOOLEAN :
              children' = [Dead(c) EXCEPT ![c].output = SubSeq(@, 1, n) \o (IF torn THEN <<Garbage>> ELSE <<>>)]
        BY <3>2 DEF ProcessCrashes
      <4> DEFINE o == SubSeq(out, 1, n) \o (IF torn THEN <<Garbage>> ELSE <<>>)
      <4>2. o \in Seq(Lines)
        <5>1. SubSeq(out, 1, n) \in Seq(Lines)
          BY <1>0
        <5>2. (IF torn THEN <<Garbage>> ELSE <<>>) \in Seq(Lines)
          BY <1>1
        <5>3. QED
          BY <5>1, <5>2
      <4>3. Dead(c)[c].output = out
        BY <1>0 DEF Dead, ChildRecord
      <4>4. children' = [children EXCEPT ![c] = [r EXCEPT !.life = "dead", !.bridge = "gone", !.input = <<>>,
                                                          !.eof = FALSE, !.output = o]]
        BY <4>1, <4>3 DEF Dead
      <4>5. QED
        BY <4>2, <4>4
    <3>3. QED
      BY <1>7, <3>1, <3>2
  <2> DEFINE k == [r EXCEPT !.life = "dead", !.bridge = "gone", !.input = <<>>, !.eof = FALSE, !.output = o]
  <2>2. k \in ChildRecord /\ k.life = "dead"
    <3>1. <<>> \in Seq(Nat)
      OBVIOUS
    <3>2. QED
      BY <1>0, <3>1 DEF ChildRecord
  <2>3. children' = [children EXCEPT ![c] = k]
    BY <2>1
  <2> HIDE DEF k
  <2>4. QED
    BY <1>0, <2>2, <2>3, ChildStep
<1>8. QED
    BY <1>4, <1>5, <1>6, <1>7

\* ------------------------------------------------------ what the main process does

LEMMA SettledTyped ==
    ASSUME LinkInv, NEW ids
    PROVE  /\ Settled(ids) \in Seq(RequestRecord) /\ Len(Settled(ids)) = Len(issued)
           /\ DOMAIN issued = 1..Len(issued) /\ Len(issued) \in Nat
<1>1. issued \in Seq(RequestRecord) /\ DOMAIN issued = 1..Len(issued) /\ Len(issued) \in Nat
    BY DEF LinkInv, LinkTyped
<1>2. ASSUME NEW k \in DOMAIN issued PROVE Settled(ids)[k] \in RequestRecord
  <2>1. issued[k] \in RequestRecord
    BY <1>1
  <2>2. [issued[k] EXCEPT !.outcome = "settled"] \in RequestRecord
    BY <2>1 DEF RequestRecord
  <2>3. QED
    BY <2>1, <2>2 DEF Settled
<1>3. Settled(ids) \in [1..Len(issued) -> RequestRecord]
    BY <1>1, <1>2 DEF Settled
<1>4. QED
    BY <1>1, <1>3

(* A caller stops waiting, because of the time or of a broken pipe. *)
LEMMA CallerLeaves ==
    ASSUME LinkInv, NEW id \in DOMAIN issued, TimeOut(id) \/ WriteFails(id)
    PROVE  LinkInv'
<1>1. /\ UNCHANGED <<runtime, child, closing, children, alarm>>
      /\ pending' = pending \ {id} /\ issued' = Settled({id}) /\ id \in pending
    BY DEF TimeOut, WriteFails
<1>2. Asked' \subseteq Asked
    BY <1>1 DEF TimeOut, WriteFails, Asked
<1>3. LinkTyped'
    BY <1>1, <1>2, SettledTyped DEF LinkInv, LinkTyped
<1>4. /\ OwnedUntilClosed' /\ TheClosedAreSilent' /\ ReadyHasAChild' /\ StoppingIsClosing'
      /\ WaitsForItsChild' /\ LateAnswersAreHarmless'
    BY <1>1 DEF LinkInv, OwnedUntilClosed, TheClosedAreSilent, Alive, Owned, ReadyHasAChild, StoppingIsClosing,
       WaitsForItsChild, Waiting, LateAnswersAreHarmless
<1>5. TheGoneLeaveNobody'
    BY <1>1 DEF LinkInv, TheGoneLeaveNobody
<1>6. AnswersAreAwaited'
  <2>1. CASE TimeOut(id)
    <3>1. Asked' = Asked
      BY <1>1, <2>1 DEF TimeOut, Asked
    <3>2. QED
      BY <1>1, <3>1 DEF LinkInv, AnswersAreAwaited, Running
  <2>2. CASE WriteFails(id)
    BY <1>1, <2>2 DEF WriteFails, AnswersAreAwaited, Running
  <2>3. QED
    BY <2>1, <2>2
<1>7. QED
    BY <1>3, <1>4, <1>5, <1>6 DEF LinkInv

(* A line is read: an answer, a state or nonsense. *)
LEMMA ReadLineSteps ==
    ASSUME LinkInv, NEW c \in DOMAIN children, ReadLine(c)
    PROVE  LinkInv'
<1> DEFINE r == children[c]
           out == r.output
           k == [r EXCEPT !.output = Tail(out)]
<1>1. /\ r \in ChildRecord /\ out \in Seq(Lines) /\ out # <<>> /\ Tail(out) \in Seq(Lines)
      /\ Head(out) \in Lines /\ Head(out) = out[1] /\ 1 \in 1..Len(out)
      /\ UNCHANGED <<child, closing>> /\ r.input \in Seq(Nat)
    BY ChildFacts DEF ReadLine
<1>2. k \in ChildRecord /\ k.life = r.life /\ k.input = r.input /\ k.output = Tail(out)
    BY <1>1 DEF ChildRecord
<1>3. children' = [children EXCEPT ![c] = k]
    BY DEF ReadLine
<1> HIDE DEF k
<1>4. /\ children' \in Seq(ChildRecord) /\ Len(children') = Len(children)
      /\ DOMAIN children' = DOMAIN children
      /\ \A j \in DOMAIN children : children'[j] = IF j = c THEN k ELSE children[j]
    BY <1>2, <1>3, ChildFacts, OneChild
<1>5. \A j \in DOMAIN children : children'[j].life = children[j].life
    BY <1>2, <1>4
<1>6. Interpret(Head(out))
    BY DEF ReadLine
<1>7. /\ runtime' \in {runtime, "stopped", "failed"} /\ pending' \subseteq pending
      /\ timedOut' \subseteq timedOut
    BY <1>1, <1>6 DEF Interpret, Malformed, RejectAll, Lines
<1>8. issued' \in Seq(RequestRecord) /\ Len(issued') = Len(issued)
    BY <1>6, SettledTyped DEF Interpret, Malformed, RejectAll, LinkInv, LinkTyped
<1>9. LinkTyped'
    BY <1>1, <1>4, <1>7, <1>8 DEF LinkInv, LinkTyped, Asked
<1>10. OwnedUntilClosed' /\ TheClosedAreSilent' /\ c = child
  <2>1. r.life # "closed" /\ c = child
    BY <1>1 DEF LinkInv, OwnedUntilClosed, TheClosedAreSilent, Alive, Owned
  <2>2. QED
    BY <1>1, <1>2, <1>4, <1>5, <2>1 DEF LinkInv, OwnedUntilClosed, TheClosedAreSilent, Alive, Owned
<1>11. ReadyHasAChild' /\ StoppingIsClosing' /\ WaitsForItsChild'
  <2>1. child # 0 => child \in DOMAIN children
    BY <1>1 DEF LinkInv, LinkTyped
  <2>2. QED
    BY <1>1, <1>5, <1>7, <2>1 DEF LinkInv, ReadyHasAChild, StoppingIsClosing, WaitsForItsChild, Waiting
<1>12. TheGoneLeaveNobody'
  <2>1. child # 0 => child \in DOMAIN children
    BY <1>1 DEF LinkInv, LinkTyped
  <2>2. QED
    BY <1>1, <1>5, <1>7, <2>1 DEF LinkInv, TheGoneLeaveNobody
<1>13. Running(c) /\ runtime = "ready" /\ Head(out).type = "response" => Head(out).id \in Asked
    BY <1>1, ChildFacts DEF AwaitedOnce
<1>14. LateAnswersAreHarmless'
  <2>1. ~alarm
    BY DEF LinkInv, LateAnswersAreHarmless
  <2>2. ~(Running(c) /\ runtime = "ready" /\ runtime' = "failed" /\ Head(out).type = "response")
    BY <1>6, <1>13 DEF Interpret, Asked
  <2>3. QED
    BY <2>1, <2>2 DEF ReadLine, LateAnswersAreHarmless
<1>15. AnswersAreAwaited'
  <2> SUFFICES ASSUME NEW j \in DOMAIN children, j = child, runtime' = "ready", children'[j].life = "running"
               PROVE  AwaitedOnce(children'[j].input, children'[j].output, Asked')
    BY <1>1, <1>4 DEF AnswersAreAwaited, Running
  <2>1. /\ runtime = "ready" /\ Running(j) /\ runtime' # "failed" /\ runtime' # "stopped"
        /\ AwaitedOnce(children[j].input, children[j].output, Asked)
    BY <1>5, <1>7, ChildFacts DEF Running
  <2>2. /\ \A n \in Asked : n \in Asked' \/ (Head(out).type = "response" /\ n = Head(out).id)
    BY <1>1, <1>6, <2>1 DEF Interpret, Malformed, Asked, Lines
  <2>3. Asked' \subseteq Asked
    BY <1>7 DEF Asked
  <2>4. QED
    BY <1>1, <1>2, <1>4, <1>10, <2>1, <2>2, <2>3, LineRead, SMTT(30)
<1>16. QED
    BY <1>9, <1>10, <1>11, <1>12, <1>14, <1>15 DEF LinkInv

(* A child that has ended is noticed; it was the one that is owned. *)
LEMMA EndNoticed ==
    ASSUME LinkInv, NEW c \in DOMAIN children,
           HandleError(c) \/ HandleExit(c) \/ HandleClose(c)
    PROVE  LinkInv'
<1> DEFINE r == children[c]
<1>1. /\ r \in ChildRecord /\ r.life \in {"stillborn", "dead", "exited"}
      /\ c = child /\ child # 0 /\ UNCHANGED <<closing, alarm>>
      /\ r.life = "exited" => r.output = <<>>
    BY ChildFacts DEF HandleError, HandleExit, HandleClose, LinkInv, OwnedUntilClosed, Alive, Owned
<1>2. PICK l \in {"exited", "closed"} :
        /\ children' = [children EXCEPT ![c] = [r EXCEPT !.life = l]]
        /\ l = "closed" <=> r.life = "exited"
    BY <1>1 DEF HandleError, HandleExit, HandleClose
<1> DEFINE k == [r EXCEPT !.life = l]
<1>3. k \in ChildRecord /\ k.life = l /\ k.output = r.output
    BY <1>1 DEF ChildRecord
<1> HIDE DEF k
<1>4. /\ children' \in Seq(ChildRecord) /\ Len(children') = Len(children)
      /\ DOMAIN children' = DOMAIN children
      /\ \A j \in DOMAIN children : children'[j] = IF j = c THEN k ELSE children[j]
    BY <1>2, <1>3, ChildFacts, OneChild DEF k
<1>5. /\ runtime' \in {runtime, "failed"} \ {"ready"} /\ child' \in {child, 0}
      /\ pending' \subseteq pending /\ timedOut' \subseteq timedOut
      /\ child' = 0 => l = "closed" /\ runtime # "stopping"
      /\ issued' \in {issued, Settled(pending)}
    <2>1. CASE HandleError(c)
      BY <1>1, <2>1 DEF HandleError, Owned, RejectAll
    <2>2. CASE HandleExit(c)
      BY <1>1, <2>2 DEF HandleExit, Owned, RejectAll
    <2>3. CASE HandleClose(c)
      BY <1>1, <1>2, <2>3 DEF HandleClose, Owned, RejectAll
    <2>4. QED
      BY <2>1, <2>2, <2>3
<1>6. LinkTyped'
  <2>1. issued' \in Seq(RequestRecord) /\ Len(issued') = Len(issued)
    BY <1>5, SettledTyped DEF LinkInv, LinkTyped
  <2>2. QED
    BY <1>1, <1>4, <1>5, <2>1 DEF LinkInv, LinkTyped, Asked
<1>7. OwnedUntilClosed'
    BY <1>1, <1>3, <1>4, <1>5 DEF LinkInv, OwnedUntilClosed, Alive, Owned
<1>8. TheClosedAreSilent'
    BY <1>1, <1>2, <1>3, <1>4 DEF LinkInv, TheClosedAreSilent
<1>9. /\ ReadyHasAChild' /\ StoppingIsClosing' /\ WaitsForItsChild'
      /\ LateAnswersAreHarmless' /\ AnswersAreAwaited'
    BY <1>1, <1>5 DEF LinkInv, ReadyHasAChild, StoppingIsClosing, WaitsForItsChild, Waiting,
       LateAnswersAreHarmless, AnswersAreAwaited
<1>10. TheGoneLeaveNobody'
  <2> SUFFICES ASSUME closing.step = "no" PROVE pending' = {}
    BY <1>1 DEF TheGoneLeaveNobody
  <2>1. runtime # "stopping"
    BY DEF LinkInv, StoppingIsClosing
  <2>2. CASE HandleError(c) \/ HandleExit(c)
    BY <1>1, <2>1, <2>2 DEF HandleError, HandleExit, Owned, RejectAll
  <2>3. CASE HandleClose(c)
    <3>1. pending = {}
      BY <1>1, <2>3 DEF HandleClose, LinkInv, TheGoneLeaveNobody
    <3>2. QED
      BY <1>5, <3>1
  <2>4. QED
    BY <2>2, <2>3
<1>11. QED
    BY <1>6, <1>7, <1>8, <1>9, <1>10 DEF LinkInv

\* ------------------------------------------------------------------- closing

LEMMA EndInputSteps ==
    ASSUME LinkInv, EndInput
    PROVE  LinkInv'
<1> DEFINE n == closing.child
<1>1. /\ UNCHANGED <<runtime, child, issued, pending, timedOut, alarm>>
      /\ closing' = [closing EXCEPT !.step = "wait", !.waits = child]
      /\ children' = [children EXCEPT ![n].eof = Running(n)]
    BY DEF EndInput
<1>2. closing' \in ClosingRecord /\ closing'.step = "wait" /\ closing'.waits = child
  <2>1. closing \in ClosingRecord /\ child \in Nat
    BY DEF LinkInv, LinkTyped
  <2>2. QED
    BY <1>1, <2>1 DEF ClosingRecord
<1>3. /\ children' \in Seq(ChildRecord) /\ Len(children') = Len(children)
      /\ DOMAIN children' = DOMAIN children
      /\ \A j \in DOMAIN children : /\ children'[j].life = children[j].life
                                    /\ children'[j].input = children[j].input
                                    /\ children'[j].output = children[j].output
  <2>1. children \in Seq(ChildRecord)
    BY DEF LinkInv, LinkTyped
  <2>2. CASE n \in DOMAIN children
    <3> DEFINE k == [children[n] EXCEPT !.eof = Running(n)]
    <3>1. children[n] \in ChildRecord /\ Running(n) \in BOOLEAN
      BY <2>1, <2>2 DEF Running
    <3>2. /\ k \in ChildRecord /\ k.life = children[n].life /\ k.input = children[n].input
          /\ k.output = children[n].output
      BY <3>1 DEF ChildRecord
    <3>3. children' = [children EXCEPT ![n] = k]
      BY <1>1
    <3> HIDE DEF k
    <3>4. QED
      BY <2>1, <2>2, <3>2, <3>3, OneChild
  <2>3. CASE n \notin DOMAIN children
    <3>1. children' = children
      BY <1>1, <2>1, <2>3
    <3>2. QED
      BY <2>1, <3>1
  <2>4. QED
    BY <2>2, <2>3
<1>4. child # 0 => child \in DOMAIN children
    BY DEF LinkInv, LinkTyped
<1>5. LinkTyped'
    BY <1>1, <1>2, <1>3 DEF LinkInv, LinkTyped, Asked
<1>6. OwnedUntilClosed' /\ TheClosedAreSilent'
    BY <1>1, <1>3 DEF LinkInv, OwnedUntilClosed, TheClosedAreSilent, Alive, Owned
<1>7. /\ ReadyHasAChild' /\ StoppingIsClosing' /\ WaitsForItsChild'
      /\ LateAnswersAreHarmless' /\ TheGoneLeaveNobody'
    BY <1>1, <1>2, <1>3, <1>4 DEF LinkInv, ReadyHasAChild, StoppingIsClosing, WaitsForItsChild, Waiting,
       LateAnswersAreHarmless, TheGoneLeaveNobody
<1>8. AnswersAreAwaited'
  <2> SUFFICES ASSUME NEW c \in DOMAIN children', c = child', runtime' = "ready",
                      children'[c].life = "running"
               PROVE  AwaitedOnce(children'[c].input, children'[c].output, Asked')
    BY DEF AnswersAreAwaited, Running
  <2>1. /\ c \in DOMAIN children /\ c = child /\ runtime = "ready"
        /\ children[c].life = "running"
    BY <1>1, <1>3
  <2>2. AwaitedOnce(children[c].input, children[c].output, Asked)
    BY <2>1 DEF LinkInv, AnswersAreAwaited, Running
  <2>3. Asked' = Asked
    BY <1>1 DEF Asked
  <2>4. QED
    BY <1>3, <2>1, <2>2, <2>3
<1>9. QED
    BY <1>5, <1>6, <1>7, <1>8 DEF LinkInv

LEMMA TerminateSteps ==
    ASSUME LinkInv, Terminate
    PROVE  LinkInv'
<1>1. /\ UNCHANGED <<runtime, child, issued, pending, timedOut, alarm>>
      /\ closing' = [closing EXCEPT !.step = IF @ = "wait" THEN "terminated" ELSE "killed", !.waits = child]
      /\ (Running(child) /\ children' = Dead(child)) \/ children' = children
      /\ Waiting
    BY DEF Terminate, Waiting
<1>2. /\ closing' \in ClosingRecord /\ closing'.step \in {"terminated", "killed"}
      /\ closing'.waits = child
  <2>1. closing \in ClosingRecord /\ child \in Nat
    BY DEF LinkInv, LinkTyped
  <2>2. QED
    BY <1>1, <2>1 DEF ClosingRecord
<1>3. /\ children' \in Seq(ChildRecord) /\ Len(children') = Len(children)
      /\ DOMAIN children' = DOMAIN children
      /\ \A j \in DOMAIN children :
           \/ children'[j] = children[j]
           \/ j = child /\ children[j].life = "running" /\ children'[j].life = "dead"
  <2>1. children \in Seq(ChildRecord)
    BY DEF LinkInv, LinkTyped
  <2>2. CASE children' = children
    BY <2>1, <2>2
  <2>3. CASE children' = Dead(child) /\ Running(child)
    <3>1. CASE child \in DOMAIN children
      <4> DEFINE k == [children[child] EXCEPT !.life = "dead", !.bridge = "gone", !.input = <<>>, !.eof = FALSE]
      <4>1. children[child] \in ChildRecord /\ <<>> \in Seq(Nat) /\ children[child].life = "running"
        BY <2>1, <2>3, <3>1 DEF Running
      <4>2. k \in ChildRecord /\ k.life = "dead"
        BY <4>1 DEF ChildRecord
      <4>3. children' = [children EXCEPT ![child] = k]
        BY <2>3 DEF Dead
      <4> HIDE DEF k
      <4>4. /\ children' \in Seq(ChildRecord) /\ Len(children') = Len(children)
            /\ DOMAIN children' = DOMAIN children
            /\ \A j \in DOMAIN children : children'[j] = IF j = child THEN k ELSE children[j]
        BY <2>1, <3>1, <4>2, <4>3, OneChild
      <4>5. QED
        BY <4>1, <4>2, <4>4
    <3>2. CASE child \notin DOMAIN children
      <4>1. children' = children
        BY <2>1, <2>3, <3>2 DEF Dead
      <4>2. QED
        BY <2>1, <4>1
    <3>3. QED
      BY <3>1, <3>2
  <2>4. QED
    BY <1>1, <2>2, <2>3
<1>4. child # 0 => child \in DOMAIN children
    BY DEF LinkInv, LinkTyped
<1>5. LinkTyped'
    BY <1>1, <1>2, <1>3 DEF LinkInv, LinkTyped, Asked
<1>6. OwnedUntilClosed' /\ TheClosedAreSilent'
    BY <1>1, <1>3 DEF LinkInv, OwnedUntilClosed, TheClosedAreSilent, Alive, Owned
<1>7. /\ ReadyHasAChild' /\ StoppingIsClosing' /\ WaitsForItsChild'
      /\ LateAnswersAreHarmless' /\ TheGoneLeaveNobody'
    BY <1>1, <1>2, <1>3, <1>4 DEF LinkInv, ReadyHasAChild, StoppingIsClosing, WaitsForItsChild, Waiting,
       LateAnswersAreHarmless, TheGoneLeaveNobody
<1>8. AnswersAreAwaited'
    BY <1>1, <1>3 DEF LinkInv, AnswersAreAwaited, Running, Asked
<1>9. QED
    BY <1>5, <1>6, <1>7, <1>8 DEF LinkInv

(* The end of the closing, in time or not, leaves nobody waiting. *)
LEMMA ClosingEnds ==
    ASSUME LinkInv, GiveUp \/ FinishClosing
    PROVE  LinkInv'
<1>1. /\ runtime' \in {"failed", "stopped"} /\ RejectAll /\ closing' = NotClosing
      /\ UNCHANGED <<children, alarm>>
      /\ child' = child \/ (child' = 0 /\ Waiting /\ Closed(closing.waits))
    BY DEF GiveUp, FinishClosing
<1>2. /\ NotClosing \in ClosingRecord /\ NotClosing.step = "no" /\ NotClosing.waits = 0
    BY DEF NotClosing, ClosingRecord
<1>3. pending' = {} /\ timedOut' = {} /\ issued' = Settled(pending)
    BY <1>1 DEF RejectAll
<1>4. LinkTyped'
    BY <1>1, <1>2, <1>3, SettledTyped DEF LinkInv, LinkTyped, Asked
<1>5. OwnedUntilClosed'
  <2> SUFFICES ASSUME NEW j \in DOMAIN children, Alive(j) PROVE j = child'
    BY <1>1 DEF OwnedUntilClosed, Alive, Owned
  <2>1. j = child /\ j # 0
    BY DEF LinkInv, LinkTyped, OwnedUntilClosed, Owned
  <2>2. CASE Waiting /\ Closed(closing.waits)
    <3>1. child \in {0, closing.waits}
      BY <2>2 DEF LinkInv, WaitsForItsChild
    <3>2. QED
      BY <2>1, <2>2, <3>1 DEF Closed
  <2>3. QED
    BY <1>1, <2>1, <2>2
<1>6. /\ TheClosedAreSilent' /\ ReadyHasAChild' /\ StoppingIsClosing' /\ WaitsForItsChild'
      /\ LateAnswersAreHarmless' /\ TheGoneLeaveNobody' /\ AnswersAreAwaited'
    BY <1>1, <1>2, <1>3 DEF LinkInv, TheClosedAreSilent, ReadyHasAChild, StoppingIsClosing,
       WaitsForItsChild, Waiting, LateAnswersAreHarmless, TheGoneLeaveNobody, AnswersAreAwaited
<1>7. QED
    BY <1>4, <1>5, <1>6 DEF LinkInv

\* ------------------------------------------------------------- new requests

LEMMA WriteTo ==
    ASSUME LinkInv, NEW n \in Nat, child # 0
    PROVE  /\ Write(child, n) \in Seq(ChildRecord) /\ Len(Write(child, n)) = Len(children)
           /\ DOMAIN Write(child, n) = DOMAIN children
           /\ \A j \in DOMAIN children : /\ Write(child, n)[j].life = children[j].life
                                         /\ Write(child, n)[j].output = children[j].output
           /\ Write(child, n)[child].input \in {children[child].input, Append(children[child].input, n)}
<1> DEFINE r == children[child]
           in == IF Running(child) /\ r.bridge = "ready" THEN Append(r.input, n) ELSE r.input
           k == [r EXCEPT !.input = in]
<1>1. child \in DOMAIN children
    BY DEF LinkInv, LinkTyped
<1>2. r \in ChildRecord /\ r.input \in Seq(Nat) /\ in \in Seq(Nat) /\ in \in {r.input, Append(r.input, n)}
    BY <1>1, ChildFacts
<1>3. Write(child, n) = [children EXCEPT ![child] = k]
    BY DEF Write
<1> HIDE DEF in
<1>4. k \in ChildRecord /\ k.life = r.life /\ k.output = r.output /\ k.input = in
    BY <1>2 DEF ChildRecord
<1> HIDE DEF k
<1>5. /\ Write(child, n) \in Seq(ChildRecord) /\ Len(Write(child, n)) = Len(children)
      /\ DOMAIN Write(child, n) = DOMAIN children
      /\ \A j \in DOMAIN children : Write(child, n)[j] = IF j = child THEN k ELSE children[j]
    BY <1>1, <1>3, <1>4, ChildFacts, OneChild
<1>6. QED
    BY <1>1, <1>2, <1>4, <1>5

LEMMA IssueFacts ==
    ASSUME LinkInv, NEW kind \in {"call", "stop"}, Issue(kind)
    PROVE  LET n == Len(issued) + 1 IN
           /\ issued' \in Seq(RequestRecord) /\ Len(issued') = n /\ n \in Nat
           /\ n \notin Asked /\ pending' = pending \cup {n} /\ Asked \subseteq 1..Len(issued)
<1>1. issued \in Seq(RequestRecord) /\ Len(issued) \in Nat /\ Asked \subseteq 1..Len(issued)
    BY DEF LinkInv, LinkTyped
<1>2. [kind |-> kind, outcome |-> "waiting"] \in RequestRecord
    BY DEF RequestRecord
<1>3. QED
    BY <1>1, <1>2 DEF Issue

(* Asking the child that works, or the one that is to be closed. *)
LEMMA Asks ==
    ASSUME LinkInv, NEW kind \in {"call", "stop"}, Issue(kind), child # 0,
           children' = Write(child, Len(issued) + 1), UNCHANGED <<child, timedOut, alarm>>,
           \/ runtime' = runtime /\ runtime = "ready" /\ closing' = closing
           \/ /\ runtime' = "stopping"
              /\ closing' \in ClosingRecord /\ closing'.step = "asked" /\ closing'.waits = 0
    PROVE  LinkInv'
<1> DEFINE n == Len(issued) + 1
<1>1. /\ issued' \in Seq(RequestRecord) /\ Len(issued') = n /\ n \in Nat /\ n \notin Asked
      /\ pending' = pending \cup {n} /\ Asked \subseteq 1..Len(issued)
    BY IssueFacts
<1>2. /\ children' \in Seq(ChildRecord) /\ Len(children') = Len(children)
      /\ DOMAIN children' = DOMAIN children
      /\ \A j \in DOMAIN children : /\ children'[j].life = children[j].life
                                    /\ children'[j].output = children[j].output
      /\ children'[child].input \in {children[child].input, Append(children[child].input, n)}
    BY <1>1, WriteTo
<1>3. Asked' = Asked \cup {n} /\ child \in DOMAIN children /\ Len(issued) \in Nat
    BY <1>1 DEF Asked, LinkInv, LinkTyped
<1>4. LinkTyped'
  <2>1. Asked' \subseteq 1..Len(issued')
    <3>1. \A x \in 1..Len(issued) : x \in 1..n
      BY <1>1, <1>3
    <3>2. n \in 1..n
      BY <1>1, <1>3
    <3>3. QED
      BY <1>1, <1>3, <3>1, <3>2
  <2>2. closing' \in ClosingRecord /\ closing'.waits <= Len(children)
    BY DEF LinkInv, LinkTyped
  <2>3. runtime' \in {"ready", "stopping"}
    OBVIOUS
  <2>4. QED
    BY <1>1, <1>2, <2>1, <2>2, <2>3 DEF LinkInv, LinkTyped
<1>5. OwnedUntilClosed' /\ TheClosedAreSilent'
    BY <1>2 DEF LinkInv, OwnedUntilClosed, TheClosedAreSilent, Alive, Owned
<1>6. /\ ReadyHasAChild' /\ StoppingIsClosing' /\ LateAnswersAreHarmless' /\ TheGoneLeaveNobody'
    BY <1>2, <1>3 DEF LinkInv, ReadyHasAChild, StoppingIsClosing, LateAnswersAreHarmless, TheGoneLeaveNobody
<1>7. WaitsForItsChild'
    BY DEF LinkInv, WaitsForItsChild, Waiting
<1>8. AnswersAreAwaited'
  <2> SUFFICES ASSUME runtime' = "ready", children'[child].life = "running"
               PROVE  AwaitedOnce(children'[child].input, children'[child].output, Asked')
    BY <1>2 DEF AnswersAreAwaited, Running
  <2>1. /\ AwaitedOnce(children[child].input, children[child].output, Asked)
        /\ children[child].input \in Seq(Nat) /\ children[child].output \in Seq(Lines)
    BY <1>2, <1>3, ChildFacts DEF Running
  <2>2. \A in \in {children[child].input, Append(children[child].input, n)} :
          AwaitedOnce(in, children[child].output, Asked \cup {n})
    <3> DEFINE old == children[child].input
               out == children[child].output
    <3>1. old \in Seq(Nat) /\ out \in Seq(Lines) /\ AwaitedOnce(old, out, Asked)
      BY <2>1
    <3>2. AwaitedOnce(Append(old, n), out, Asked \cup {n}) /\ AwaitedOnce(old, out, Asked \cup {n})
      <4> HIDE DEF old, out, n
      <4>1. QED
        BY <1>1, <3>1, RequestWritten
    <3>3. QED
      BY <3>2
  <2>3. QED
    BY <1>2, <1>3, <2>2
<1>9. QED
    BY <1>4, <1>5, <1>6, <1>7, <1>8 DEF LinkInv

LEMMA StartsAChild ==
    ASSUME LinkInv, Quiet, Stopped, NEW kind \in {"call", "stop"}, Issue(kind),
           NEW life \in {"running", "stillborn"}, NEW in \in {<<>>, <<Len(issued) + 1>>},
           children' = Append(children, [Born(life) EXCEPT !.input = in]),
           runtime' = "ready", child' = Len(children) + 1, timedOut' = {},
           UNCHANGED <<closing, alarm>>
    PROVE  LinkInv'
<1> DEFINE n == Len(issued) + 1
           m == Len(children) + 1
           k == [Born(life) EXCEPT !.input = in]
<1>1. /\ issued' \in Seq(RequestRecord) /\ Len(issued') = n /\ n \in Nat /\ n \notin Asked
      /\ pending' = pending \cup {n} /\ Asked \subseteq 1..Len(issued)
    BY IssueFacts
<1>2. k \in ChildRecord /\ k.life = life /\ k.input = in /\ k.output = <<>>
  <2>1. in \in Seq(Nat) /\ <<>> \in Seq(Lines)
    <3>1. <<n>> \in Seq(Nat) /\ <<>> \in Seq(Nat)
      BY <1>1
    <3>2. CASE in = <<>>
      BY <3>1, <3>2
    <3>3. CASE in = <<n>>
      BY <3>1, <3>3
    <3>4. QED
      BY <3>2, <3>3
  <2>2. QED
    BY <2>1 DEF Born, ChildRecord
<1> HIDE DEF k
<1>3. children \in Seq(ChildRecord) /\ Len(children) \in Nat /\ DOMAIN children = 1..Len(children) /\ child = 0
    BY DEF LinkInv, LinkTyped, Stopped
<1>4. /\ children' \in Seq(ChildRecord) /\ Len(children') = m /\ DOMAIN children' = 1..m
      /\ children'[m] = k /\ \A j \in DOMAIN children : children'[j] = children[j]
    BY <1>2, <1>3 DEF k
<1>4a. child' = m /\ m # 0 /\ m \in DOMAIN children' /\ m \notin DOMAIN children
    BY <1>3, <1>4
<1>5. Asked' = pending \cup {n} /\ pending \subseteq Asked
    BY <1>1 DEF Asked
<1>6. LinkTyped'
  <2>1. Asked' \subseteq 1..Len(issued')
    <3>1. \A x \in 1..Len(issued) : x \in 1..n
      BY <1>1, <1>3
    <3>2. n \in 1..n
      BY <1>1, <1>3
    <3>3. QED
      BY <1>1, <1>5, <3>1, <3>2
  <2>2. closing \in ClosingRecord /\ closing.waits <= Len(children')
    BY <1>3, <1>4 DEF LinkInv, LinkTyped, ClosingRecord
  <2>3. QED
    BY <1>1, <1>3, <1>4, <2>1, <2>2 DEF LinkTyped
<1>7. \A j \in DOMAIN children : children[j].life = "closed"
    BY <1>3 DEF LinkInv, OwnedUntilClosed, Alive, Owned
<1>8. \A j \in DOMAIN children' : j = m \/ j \in DOMAIN children
    BY <1>3, <1>4
<1> HIDE DEF m
<1>9. OwnedUntilClosed' /\ TheClosedAreSilent'
  <2>1. \A j \in DOMAIN children' : children'[j].life # "closed" => j = m
    BY <1>4, <1>7, <1>8
  <2>2. \A j \in DOMAIN children' : children'[j].life = "closed" => children'[j].output = <<>>
    BY <1>2, <1>4, <1>8 DEF LinkInv, TheClosedAreSilent
  <2>3. QED
    BY <1>4a, <2>1, <2>2 DEF OwnedUntilClosed, TheClosedAreSilent, Alive, Owned
<1>10. /\ ReadyHasAChild' /\ StoppingIsClosing' /\ LateAnswersAreHarmless' /\ TheGoneLeaveNobody'
    BY <1>2, <1>4, <1>4a DEF LinkInv, ReadyHasAChild, StoppingIsClosing, LateAnswersAreHarmless,
       TheGoneLeaveNobody
<1>11. WaitsForItsChild'
  <2> SUFFICES ASSUME Waiting PROVE FALSE
    BY DEF WaitsForItsChild, Waiting
  <2>1. closing.waits # 0 /\ Alive(closing.waits)
    BY DEF Quiet, Closed
  <2>2. closing.waits \in DOMAIN children
    BY <1>3, <2>1 DEF LinkInv, LinkTyped, ClosingRecord
  <2>3. QED
    BY <1>7, <2>1, <2>2 DEF Alive
<1>12. AnswersAreAwaited'
  <2>1. AwaitedOnce(in, <<>>, Asked')
    BY <1>1, <1>5 DEF AwaitedOnce
  <2>2. QED
    BY <1>2, <1>4, <1>4a, <2>1 DEF AnswersAreAwaited
<1>13. QED
    BY <1>6, <1>9, <1>10, <1>11, <1>12 DEF LinkInv

LEMMA CallSteps ==
    ASSUME LinkInv, NEW kind \in {"call", "stop"}, Call(kind)
    PROVE  LinkInv'
<1>1. Quiet /\ UNCHANGED <<closing, alarm>>
    BY DEF Call
<1>2. CASE /\ runtime = "ready" /\ Issue(kind) /\ children' = Write(child, Len(issued) + 1)
           /\ UNCHANGED <<runtime, child, timedOut, faults>>
  <2>1. child # 0
    BY <1>2 DEF LinkInv, ReadyHasAChild
  <2>2. QED
    BY <1>1, <1>2, <2>1, Asks
<1>3. CASE /\ Stopped /\ Len(children) < MaxChildren
           /\ runtime' = "ready" /\ child' = Len(children) + 1 /\ timedOut' = {} /\ Issue(kind)
           /\ \/ UNCHANGED faults
                 /\ children' = Append(children, [Born("running") EXCEPT !.input = <<Len(issued) + 1>>])
              \/ Fault /\ children' = Append(children, Born("stillborn"))
  <2>1. Born("stillborn") = [Born("stillborn") EXCEPT !.input = <<>>]
    BY DEF Born
  <2>2. CASE children' = Append(children, [Born("running") EXCEPT !.input = <<Len(issued) + 1>>])
    BY <1>1, <1>3, <2>2, StartsAChild
  <2>3. CASE children' = Append(children, Born("stillborn"))
    <3>1. children' = Append(children, [Born("stillborn") EXCEPT !.input = <<>>])
      BY <2>1, <2>3
    <3>2. QED
      BY <1>1, <1>3, <3>1, StartsAChild
  <2>4. QED
    BY <1>3, <2>2, <2>3
<1>4. CASE /\ Stopped /\ Fault /\ runtime' = "failed" /\ timedOut' = {}
           /\ UNCHANGED <<child, issued, pending, children>>
  <2>1. LinkTyped'
    BY <1>1, <1>4 DEF LinkInv, LinkTyped, Asked
  <2>2. /\ OwnedUntilClosed' /\ TheClosedAreSilent' /\ ReadyHasAChild' /\ StoppingIsClosing'
        /\ TheGoneLeaveNobody' /\ WaitsForItsChild' /\ LateAnswersAreHarmless' /\ AnswersAreAwaited'
    BY <1>1, <1>4 DEF LinkInv, OwnedUntilClosed, TheClosedAreSilent, ReadyHasAChild, StoppingIsClosing,
       TheGoneLeaveNobody, WaitsForItsChild, Waiting, LateAnswersAreHarmless, AnswersAreAwaited, Alive, Owned
  <2>3. QED
    BY <2>1, <2>2 DEF LinkInv
<1>5. QED
    BY <1>2, <1>3, <1>4 DEF Call

(* Without a child there is nothing to close, but the Runtime counts as stopped;
   requests may be marked as served meanwhile. *)
LEMMA NothingToClose ==
    ASSUME LinkInv, UNCHANGED <<child, pending, timedOut, closing, children, alarm>>,
           issued' \in Seq(RequestRecord), Len(issued') = Len(issued),
           runtime' = runtime \/ runtime' = "stopped"
    PROVE  LinkInv'
<1>1. LinkTyped'
    BY DEF LinkInv, LinkTyped, Asked
<1>2. /\ OwnedUntilClosed' /\ TheClosedAreSilent' /\ ReadyHasAChild' /\ StoppingIsClosing'
      /\ TheGoneLeaveNobody' /\ WaitsForItsChild' /\ LateAnswersAreHarmless'
    BY DEF LinkInv, OwnedUntilClosed, TheClosedAreSilent, ReadyHasAChild, StoppingIsClosing,
       TheGoneLeaveNobody, WaitsForItsChild, Waiting, LateAnswersAreHarmless, Alive, Owned
<1>3. AnswersAreAwaited'
    BY DEF LinkInv, AnswersAreAwaited, Running, Asked
<1>4. QED
    BY <1>1, <1>2, <1>3 DEF LinkInv

(* The window's own stop was answered: the child is closed without a request. *)
LEMMA ClosesUnasked ==
    ASSUME LinkInv, UNCHANGED <<child, pending, timedOut, children, alarm>>,
           issued' \in Seq(RequestRecord), Len(issued') = Len(issued), runtime' = "stopping",
           closing' \in ClosingRecord, closing'.step = "end", closing'.waits = 0
    PROVE  LinkInv'
<1>1. LinkTyped'
    BY DEF LinkInv, LinkTyped, Asked
<1>2. /\ OwnedUntilClosed' /\ TheClosedAreSilent' /\ ReadyHasAChild' /\ StoppingIsClosing'
      /\ TheGoneLeaveNobody' /\ WaitsForItsChild' /\ LateAnswersAreHarmless' /\ AnswersAreAwaited'
    BY DEF LinkInv, OwnedUntilClosed, TheClosedAreSilent, ReadyHasAChild, StoppingIsClosing,
       TheGoneLeaveNobody, WaitsForItsChild, Waiting, LateAnswersAreHarmless, AnswersAreAwaited,
       Alive, Owned
<1>3. QED
    BY <1>1, <1>2 DEF LinkInv

LEMMA ClosingBegins ==
    ASSUME LinkInv, NEW n \in Nat, NEW step \in {"asked", "end"}
    PROVE  LET r == [NotClosing EXCEPT !.step = step, !.child = child, !.call = n]
           IN r \in ClosingRecord /\ r.step = step /\ r.waits = 0
<1>1. child \in Nat
    BY DEF LinkInv, LinkTyped
<1>2. QED
    BY <1>1 DEF NotClosing, ClosingRecord

LEMMA CloseShellSteps ==
    ASSUME LinkInv, CloseShell
    PROVE  LinkInv'
<1>1. UNCHANGED <<child, timedOut, alarm>> /\ Len(issued) + 1 \in Nat /\ issued \in Seq(RequestRecord)
    BY DEF CloseShell, LinkInv, LinkTyped
<1>2. CASE closing.step = "no" /\ child # 0
  <2>1. Issue("stop") /\ children' = Write(child, Len(issued) + 1) /\ runtime' = "stopping"
    BY <1>2 DEF CloseShell, BeginClosing
  <2>2. closing' = [NotClosing EXCEPT !.step = "asked", !.child = child, !.call = Len(issued) + 1]
    BY <1>2 DEF CloseShell, BeginClosing
  <2>3. closing' \in ClosingRecord /\ closing'.step = "asked" /\ closing'.waits = 0
    BY <1>1, <2>2, ClosingBegins
  <2>4. QED
    BY <1>1, <1>2, <2>1, <2>3, Asks
<1>3. CASE ~(closing.step = "no" /\ child # 0)
  <2>1. /\ UNCHANGED <<issued, pending, closing, children>>
        /\ runtime' = runtime \/ runtime' = "stopped"
    BY <1>3 DEF CloseShell, BeginClosing
  <2>2. QED
    BY <1>1, <2>1, NothingToClose
<1>4. QED
    BY <1>2, <1>3

LEMMA StopAnsweredSteps ==
    ASSUME LinkInv, NEW id \in DOMAIN issued, StopAnswered(id)
    PROVE  LinkInv'
<1>1. UNCHANGED <<child, pending, timedOut, alarm>>
    BY DEF StopAnswered
<1>2. issued' \in Seq(RequestRecord) /\ Len(issued') = Len(issued)
  <2> DEFINE k == [issued[id] EXCEPT !.outcome = "closed for"]
  <2>1. issued \in Seq(RequestRecord) /\ issued[id] \in RequestRecord
    BY DEF LinkInv, LinkTyped
  <2>2. k \in RequestRecord
    BY <2>1 DEF RequestRecord
  <2>3. issued' = [issued EXCEPT ![id] = k]
    BY DEF StopAnswered
  <2> HIDE DEF k
  <2>4. QED
    BY <2>1, <2>2, <2>3, OneChild
<1>3. CASE closing.step = "no" /\ child # 0
  <2>1. /\ runtime' = "stopping" /\ children' = children
        /\ closing' = [NotClosing EXCEPT !.step = "end", !.child = child, !.call = 0]
    BY <1>3 DEF StopAnswered, BeginClosing
  <2>2. closing' \in ClosingRecord /\ closing'.step = "end" /\ closing'.waits = 0
    BY <2>1, ClosingBegins
  <2>3. QED
    BY <1>1, <1>2, <2>1, <2>2, ClosesUnasked
<1>4. CASE ~(closing.step = "no" /\ child # 0)
  <2>1. UNCHANGED <<closing, children>> /\ (runtime' = runtime \/ runtime' = "stopped")
    BY <1>4 DEF StopAnswered, BeginClosing
  <2>2. QED
    BY <1>1, <1>2, <2>1, NothingToClose
<1>5. QED
    BY <1>3, <1>4

\* --------------------------------------------------------------- the theorem

LEMMA LinkStart == LinkInit => LinkInv
<1> SUFFICES ASSUME LinkInit PROVE LinkInv
    OBVIOUS
<1>1. /\ NotClosing \in ClosingRecord /\ NotClosing.step = "no" /\ NotClosing.waits = 0
    BY DEF NotClosing, ClosingRecord
<1>2. /\ <<>> \in Seq(ChildRecord) /\ <<>> \in Seq(RequestRecord) /\ Len(<<>>) = 0
    OBVIOUS
<1>3. LinkTyped
    BY <1>1, <1>2 DEF LinkInit, LinkTyped, Asked
<1>4. DOMAIN children = {}
    BY DEF LinkInit
<1>5. QED
    BY <1>1, <1>3, <1>4 DEF LinkInit, LinkInv, OwnedUntilClosed, TheClosedAreSilent, ReadyHasAChild,
       StoppingIsClosing, TheGoneLeaveNobody, WaitsForItsChild, Waiting, LateAnswersAreHarmless,
       AnswersAreAwaited

(* The invariant of the link: every child that lives is the one that is owned,
   and what it may still answer is awaited, or known to be late. *)
THEOREM LinkInvariant == LinkSpec => []LinkInv
<1>1. LinkInit => LinkInv
    BY LinkStart
<1>2. ASSUME LinkInv, LinkNext PROVE LinkInv'
  <2>1. ASSUME NEW kind \in {"call", "stop"}, Call(kind) PROVE LinkInv'
    BY <1>2, <2>1, CallSteps
  <2>2. CASE CloseShell \/ EndInput \/ Terminate \/ GiveUp \/ FinishClosing
    BY <1>2, <2>2, CloseShellSteps, EndInputSteps, TerminateSteps, ClosingEnds
  <2>3. ASSUME NEW id \in DOMAIN issued, TimeOut(id) \/ WriteFails(id) \/ StopAnswered(id)
        PROVE  LinkInv'
    BY <1>2, <2>3, CallerLeaves, StopAnsweredSteps
  <2>4. ASSUME NEW c \in DOMAIN children,
               \/ Serve(c) \/ InputEnds(c) \/ FailedTurn(c) \/ Nonsense(c)
               \/ ProcessEnds(c) \/ ProcessCrashes(c)
        PROVE  LinkInv'
    BY <1>2, <2>4, ChildActions
  <2>5. ASSUME NEW c \in DOMAIN children,
               ReadLine(c) \/ HandleError(c) \/ HandleExit(c) \/ HandleClose(c)
        PROVE  LinkInv'
    BY <1>2, <2>5, ReadLineSteps, EndNoticed
  <2>6. QED
    BY <1>2, <2>1, <2>2, <2>3, <2>4, <2>5 DEF LinkNext
<1>3. ASSUME LinkInv, UNCHANGED linkVars PROVE LinkInv'
  <2>1. /\ UNCHANGED <<child, pending, timedOut, closing, children, alarm, issued, runtime>>
    BY <1>3 DEF linkVars
  <2>2. issued' \in Seq(RequestRecord) /\ Len(issued') = Len(issued)
    BY <1>3, <2>1 DEF LinkInv, LinkTyped
  <2>3. QED
    BY <1>3, <2>1, <2>2, NothingToClose
<1>4. LinkInv /\ [LinkNext]_linkVars => LinkInv'
    BY <1>2, <1>3
<1>5. QED
    BY <1>1, <1>4, PTL DEF LinkSpec

(* There is one Python child at most, nobody waits for one that is gone, and an
   answer that is late is not taken for nonsense (PythonRuntime of
   python-runtime.ts). *)
THEOREM LinkHolds == LinkSpec => []OneRuntimeAnswers
<1>1. LinkInv => OneRuntimeAnswers
    BY DEF LinkInv, TheGoneLeaveNobody, OneRuntimeAnswers, NobodyWaitsForTheDead
<1>2. QED
    BY <1>1, LinkInvariant, PTL
=============================================================================
