----------------------------- MODULE ToolResults -----------------------------
(* Results of tools that are too long for a message.  They are stored in the   *)
(* Session's directory and the model gets a reference (application/tools.py,   *)
(* integrations/tools/tool_result_read.py); ToolResultRead gives it the text   *)
(* page by page, in pages that fit its output budget as JSON.  HistoryRead     *)
(* pages entries of the Transcript by the same search (history_read.py).       *)
(*                                                                             *)
(* A text is a sequence of code points; of each the model knows the bytes it   *)
(* takes as UTF-8 and those it takes as JSON.  Numbers in the envelope have a  *)
(* constant width.                                                             *)
EXTENDS Naturals, Sequences
LOCAL INSTANCE FiniteSets
LOCAL INSTANCE SequencesExt
LOCAL INSTANCE FiniteSetsExt

CONSTANTS Texts, Owners,   \* Owners: Sessions
          Inline, HardCap, ResultQuota,
          PageLimit, OutputBudget, Envelope,
          MaxResults

ASSUME ResultAssumption ==
  /\ \A t \in Texts : \A k \in DOMAIN t : t[k].bytes \in 1 .. 4 /\ t[k].json >= t[k].bytes
  /\ Inline <= HardCap /\ PageLimit > 0

VARIABLES
  directory,   \* of each result: "temporary", "final" or "none", and what it holds
  message,     \* what the model was told of it: "nothing", "reference", "failed"
  storing,     \* the result that is being stored, or 0
  session,     \* the active Session
  reader       \* the result a model is reading, the offset it was given, what it got

resultVars == <<directory, message, storing, session, reader>>

NotReading == [result |-> 0, offset |-> 0, got |-> <<>>]
ResultInit ==
  /\ directory = <<>> /\ message = <<>> /\ storing = 0
  /\ session \in Owners /\ reader = NotReading

----------------------------------------------------------------------------
(* Texts and their pages.                                                      *)
Bytes(t) == FoldLeft(LAMBDA n, c : n + c.bytes, 0, t)
Json(t) == FoldLeft(LAMBDA n, c : n + c.json, 0, t)
Boundaries(t) == {Bytes(SubSeq(t, 1, k)) : k \in 0 .. Len(t)}
Between(t, start, end) ==
  LET At(b) == CHOOSE k \in 0 .. Len(t) : Bytes(SubSeq(t, 1, k)) = b IN SubSeq(t, At(start) + 1, At(end))

(* _utf8_page_bounds: the start is moved on and the end back to whole code     *)
(* points; a page that has room for none is empty.                             *)
Page(t, offset, limit) ==
  LET end == Min({Bytes(t), offset + limit})
      whole == {b \in Boundaries(t) : offset <= b /\ b <= end}
      start == IF whole = {} THEN end ELSE Min(whole)
      last == IF whole = {} THEN start ELSE Max(whole)
  IN [start |-> start, next |-> last, eof |-> last >= Bytes(t)]

Progresses(p) == p.eof \/ p.next > p.start
Cost(t, p) == Envelope + (IF p.eof THEN 0 ELSE 1) + (IF p.next > p.start THEN Json(Between(t, p.start, p.next)) ELSE 0)

(* _read_bounded_page: a binary search for the largest limit whose page fits.  *)
(* A page without progress is too small and never too large; 0 if none fits.   *)
SearchDownwards(t, offset, limit) ==      \* a page without progress ends the upper half
  LET Try[low \in 1 .. limit + 1, high \in 0 .. limit, best \in 0 .. limit] ==
        IF low > high THEN best
        ELSE LET middle == (low + high) \div 2
                 p == Page(t, offset, middle)
             IN IF Progresses(p) /\ Cost(t, p) <= OutputBudget THEN Try[middle + 1, high, middle]
                ELSE Try[low, middle - 1, best]
  IN Try[1, limit, 0]
Search(t, offset, limit) ==
  LET Try[low \in 1 .. limit + 1, high \in 0 .. limit, best \in 0 .. limit] ==
        IF low > high THEN best
        ELSE LET middle == (low + high) \div 2
                 p == Page(t, offset, middle)
             IN IF ~Progresses(p) THEN Try[middle + 1, high, best]
                ELSE IF Cost(t, p) <= OutputBudget THEN Try[middle + 1, high, middle]
                ELSE Try[low, middle - 1, best]
  IN Try[1, limit, 0]
Best == [t \in Texts |-> [offset \in 0 .. Bytes(t) |-> [limit \in 1 .. PageLimit |-> Search(t, offset, limit)]]]

----------------------------------------------------------------------------
(* Storing a result: under a temporary name, then under its own.  UsedBytes counts  *)
(* both, whatever calls and crashes have left behind.                          *)
Results == DOMAIN directory
UsedBytes(o) ==
  FoldLeft(LAMBDA n, d : IF d.owner = o /\ d.stage # "none" THEN n + Bytes(d.text) ELSE n, 0, directory)

StoreResult(t) ==
  /\ storing = 0 /\ Len(directory) < MaxResults
  /\ Inline < Bytes(t)
  /\ IF Bytes(t) <= HardCap /\ UsedBytes(session) + Bytes(t) <= ResultQuota
     THEN /\ directory' = Append(directory, [stage |-> "temporary", owner |-> session, text |-> t])
          /\ message' = Append(message, "nothing") /\ storing' = Len(directory')
     ELSE /\ directory' = Append(directory, [stage |-> "none", owner |-> session, text |-> t])
          /\ message' = Append(message, "failed") /\ UNCHANGED storing
  /\ UNCHANGED <<session, reader>>

Finish ==                                 \* the rename, and the message
  /\ storing # 0 /\ directory[storing].stage = "temporary"
  /\ directory' = [directory EXCEPT ![storing].stage = "final"]
  /\ message' = [message EXCEPT ![storing] = "reference"] /\ storing' = 0
  /\ UNCHANGED <<session, reader>>
FailToStore ==                            \* rmtree(ignore_errors) may leave it there
  /\ storing # 0
  /\ \/ directory' = [directory EXCEPT ![storing].stage = "none"]
     \/ UNCHANGED directory
  /\ message' = [message EXCEPT ![storing] = "failed"] /\ storing' = 0
  /\ UNCHANGED <<session, reader>>
StopApplication ==                        \* a crash at any time, also after the rename
  /\ \/ UNCHANGED directory
     \/ storing # 0 /\ directory' = [directory EXCEPT ![storing].stage = "final"]
  /\ storing' = 0 /\ reader' = NotReading /\ UNCHANGED <<message, session>>

SwitchSession(o) ==
  /\ storing = 0 /\ session' = o /\ reader' = NotReading
  /\ UNCHANGED <<directory, message, storing>>

(* ToolResultRead.  The model may start anywhere and goes on where the last    *)
(* page ended.                                                                 *)
StartReading(r, offset) ==
  /\ message[r] = "reference" /\ reader.result = 0
  /\ directory[r].owner = session /\ offset <= Bytes(directory[r].text)
  /\ reader' = [NotReading EXCEPT !.result = r, !.offset = offset]
  /\ UNCHANGED <<directory, message, storing, session>>

ReadPage(limit) ==
  /\ reader.result # 0 /\ directory[reader.result].owner = session
  /\ LET t == directory[reader.result].text
         best == Best[t][reader.offset][limit]
         p == Page(t, reader.offset, best)
     IN /\ best # 0
        /\ reader' = [reader EXCEPT !.offset = p.next, !.got = @ \o Between(t, p.start, p.next)]
  /\ UNCHANGED <<directory, message, storing, session>>

ResultNext ==
  \/ \E t \in Texts : StoreResult(t)
  \/ Finish \/ FailToStore \/ StopApplication
  \/ \E o \in Owners : SwitchSession(o)
  \/ \E r \in Results : \E offset \in 0 .. Bytes(directory[r].text) : StartReading(r, offset)
  \/ \E limit \in 1 .. PageLimit : ReadPage(limit)

ResultSpec == ResultInit /\ [][ResultNext]_resultVars

----------------------------------------------------------------------------
(* The search finds what a scan of all limits would, from every offset, also   *)
(* from within a code point: the longest page that fits, if any gets further.  *)
(* So reading page after page gives the text, from the first whole code point  *)
(* on, without a gap or an overlap.                                            *)
Fits(t, offset, n) == Progresses(Page(t, offset, n)) /\ Cost(t, Page(t, offset, n)) <= OutputBudget
SearchIsExact ==
  \A t \in Texts : \A offset \in 0 .. Bytes(t), limit \in 1 .. PageLimit :
    LET fitting == {n \in 1 .. limit : Fits(t, offset, n)}
        best == Best[t][offset][limit]
    IN IF fitting = {} THEN best = 0 ELSE Page(t, offset, best).next = Page(t, offset, Max(fitting)).next
PagesReassemble ==
  /\ SearchIsExact
  /\ reader.got # <<>> =>
       LET t == directory[reader.result].text IN
       \E k \in 0 .. Len(t) : /\ Bytes(SubSeq(t, 1, k)) + Bytes(reader.got) = reader.offset
                              /\ SubSeq(t, k + 1, k + Len(reader.got)) = reader.got

(* A reference that was given to the model can be read for ever, and a         *)
(* Session's results never take more than its quota, leftovers included.       *)
OnDisk(o) == {r \in Results : directory[r].owner = o /\ directory[r].stage # "none"}
ResultsAreKept ==
  /\ \A r \in Results : message[r] = "reference" => directory[r].stage = "final"
  /\ \A o \in Owners : MapThenSumSet(LAMBDA r : Bytes(directory[r].text), OnDisk(o)) <= ResultQuota

(* Both: a result can be read, all of it and for ever.                         *)
ResultsAreReadable == PagesReassemble /\ ResultsAreKept
=============================================================================
