----------------------------- MODULE HistoryPages -----------------------------
(* A Session's history is read backwards from its files, page by page, while   *)
(* it is being written (integrations/session_files.py, read_history_page): for *)
(* the window, which goes on to older pages by cursors, and for the search.    *)
(* HistoryRead gives the model a range of it in pages that fit its output      *)
(* budget (integrations/tools/history_read.py).                                *)
(*                                                                             *)
(* The Transcript is a sequence of bytes: the line number in every byte of its *)
(* text, and NewLine.  The Timeline is read by the same reader and is modelled *)
(* by its lines; its offsets count lines.                                      *)
EXTENDS Naturals, Sequences, FiniteSets

LOCAL INSTANCE SequencesExt
LOCAL INSTANCE FiniteSetsExt

CONSTANTS
  PageSizes, Block,    \* the units of a page, the bytes that are read at once
  Width,               \* the bytes of a line's text, by the number of the line
  Ranges,              \* the sizes of the entries of a reference
  RangeLimit, RangeBudget, RangeFrame,
  MaxLines, MaxPasses, MaxTears, MaxPages   \* bounds

ASSUME PagesAssumption ==
  /\ Block \in Nat \ {0} /\ PageSizes \subseteq Nat \ {0} /\ RangeLimit \in Nat \ {0}
  /\ Width \in [1..MaxLines + 1 -> Nat \ {0}]

VARIABLES
  lines,      \* the complete lines of the Transcript: [turn, kind]
  torn,       \* the bytes that are there of one more line
  passes,     \* the lines of the Timeline: [pass, kind, position]
  tears,
  walk        \* the reader
pagesVars == <<lines, torn, passes, tears, walk>>

NewLine == 0
NoCursor == [before |-> 0, timeline |-> 0]
NoPosition == 0      \* of checkpoints that old versions wrote

Copies(x, n) == [i \in 1..n |-> x]

\* A file of lines of these widths, the last of them torn.
FileOf(widths, tear) ==
  LET n == Len(widths)
  IN FlattenSeq([i \in 1..n |-> Copies(i, widths[i]) \o <<NewLine>>]) \o Copies(n + 1, tear)

HistoryFile == FileOf([i \in DOMAIN lines |-> Width[i]], torn)

----------------------------------------------------------------------------
(* The lines from an offset back to the start of the file, newest first, in    *)
(* blocks.  What is right of the last break is a line only if it ends there.   *)
PiecesOf(buffer, at, complete) ==
  LET breaks == {i \in DOMAIN buffer : buffer[i] = NewLine}
      right(b) == {c \in breaks : c > b}
      piece(b) == [text |-> SubSeq(buffer, b + 1, (IF right(b) = {} THEN Len(buffer) ELSE Min(right(b)) - 1)), start |-> at + b]
      whole == {b \in breaks : piece(b).text # <<>> /\ (right(b) # {} \/ complete)}
  IN [found |-> [k \in 1..Cardinality(whole) |-> piece(SetToSortSeq(whole, LAMBDA x, y : x > y)[k])],
      rest |-> IF breaks = {} THEN buffer ELSE SubSeq(buffer, 1, Min(breaks) - 1),
      complete |-> complete \/ breaks # {}]

Ends(file, end, size) == end < size \/ (end <= Len(file) /\ file[end] = NewLine)

LinesBackwards(file, end, size, block) ==
  LET blocks == (end + block - 1) \div block
      step(s, k) ==
        LET at == IF s.position > block THEN s.position - block ELSE 0
            new == PiecesOf(SubSeq(file, at + 1, Min({s.position, Len(file)})) \o s.buffer, at, s.complete)
        IN [position |-> at, buffer |-> new.rest, complete |-> new.complete, found |-> s.found \o new.found]
      all == FoldLeft(step, [position |-> end, buffer |-> <<>>, complete |-> end > 0 /\ Ends(file, end, size), found |-> <<>>],
                      [k \in 1..blocks |-> k])
  IN all.found \o IF all.buffer # <<>> /\ all.complete THEN <<[text |-> all.buffer, start |-> 0]>> ELSE <<>>

(* A unit is a Turn.  It can be shown when its calls have their results.       *)
Complete(unit) ==
  Cardinality({i \in DOMAIN unit : lines[unit[i]].kind = "call"}) = Cardinality({i \in DOMAIN unit : lines[unit[i]].kind = "result"})

NoUnit == [turn |-> 0, unit |-> <<>>, start |-> 0, units |-> <<>>, full |-> FALSE, more |-> FALSE]

FinishUnit(s) ==
  [s EXCEPT !.turn = 0, !.unit = <<>>,
            !.units = IF s.unit # <<>> /\ Complete(s.unit) THEN Append(@, [lines |-> s.unit, start |-> s.start]) ELSE @]

(* The units of a page, newest first.  A full page reads one unit more, to     *)
(* know whether there is an older page.                                        *)
UnitsBackwards(found, size) ==
  LET step(s, l) ==
        LET n == l.text[1]
            closed == IF s.turn # 0 /\ lines[n].turn # s.turn THEN FinishUnit(s) ELSE s
            one == Len(closed.units) > Len(s.units)
        IN IF s.more THEN s
           ELSE IF s.full /\ one THEN [closed EXCEPT !.more = TRUE]
           ELSE [closed EXCEPT !.full = @ \/ (one /\ Len(closed.units) >= size),
                               !.turn = lines[n].turn, !.unit = <<n>> \o @, !.start = l.start]
      read == FoldLeft(step, NoUnit, found)
      last == IF read.more THEN read ELSE FinishUnit(read)
  IN [units |-> SubSeq(last.units, 1, Min({size, Len(last.units)})),
      more |-> read.more \/ (read.full /\ Len(last.units) > Len(read.units))]

(* The compactions whose place is in a page, from an offset back.  A checkpoint *)
(* counts when a record of its transaction precedes it.  The next page goes on  *)
(* behind the first checkpoint that is older than this page.                    *)
NoticesBackwards(end, lower, upper) ==
  LET step(s, k) ==
        LET i == end + 1 - k
            r == passes[i]
        IN IF s.stop THEN s
           ELSE IF r.kind = "checkpoint"
             THEN IF r.position = NoPosition THEN [s EXCEPT !.stop = TRUE]
                  ELSE IF r.position < lower THEN [s EXCEPT !.stop = TRUE, !.next = i]
                  ELSE [s EXCEPT !.pending = IF r.position <= upper THEN i ELSE 0]
           ELSE IF s.pending = 0 THEN s
           ELSE IF passes[s.pending].pass # r.pass THEN [s EXCEPT !.stop = TRUE, !.corrupt = TRUE]
           ELSE [s EXCEPT !.notices = <<s.pending>> \o @, !.pending = 0]
  IN FoldLeft(step, [stop |-> FALSE, next |-> 0, pending |-> 0, notices |-> <<>>, corrupt |-> FALSE], [k \in 1..end |-> k])

----------------------------------------------------------------------------
NotWalking == [phase |-> "idle", page |-> 0, size |-> 0, cursor |-> NoCursor, units |-> <<>>, more |-> FALSE,
               shown |-> <<>>, notices |-> <<>>, due |-> 0, known |-> 0]

PagesInit ==
  /\ \/ lines = <<>> /\ passes = <<>>
     \/ /\ lines = <<[turn |-> 1, kind |-> "note"]>>
        /\ passes = <<[pass |-> 1, kind |-> "summary", position |-> NoPosition],
                      [pass |-> 1, kind |-> "checkpoint", position |-> NoPosition]>>
  /\ torn = 0 /\ tears = 0 /\ walk = NotWalking

TurnOf(n) == IF n = 0 THEN 0 ELSE lines[n].turn
UnitOf(t) == SelectSeq([i \in DOMAIN lines |-> i], LAMBDA i : lines[i].turn = t)
OpenCall == ~Complete(UnitOf(TurnOf(Len(lines))))

(* The writer.  A result follows its call before anything else does; what was  *)
(* seen of a line before may be its beginning.                                 *)
WriteLine(kind, t) ==
  /\ Len(lines) < MaxLines
  /\ t \in {TurnOf(Len(lines)), TurnOf(Len(lines)) + 1} \ {0}
  /\ OpenCall <=> kind = "result"
  /\ OpenCall => t = TurnOf(Len(lines))
  /\ t # TurnOf(Len(lines)) => kind = "note"
  /\ lines' = Append(lines, [turn |-> t, kind |-> kind]) /\ torn' = 0
  /\ UNCHANGED <<passes, tears, walk>>

TearLine(n) ==
  /\ torn = 0 /\ tears < MaxTears /\ Len(lines) < MaxLines /\ n \in 1..Width[Len(lines) + 1]
  /\ torn' = n /\ tears' = tears + 1
  /\ UNCHANGED <<lines, passes, walk>>

RepairLine == torn # 0 /\ torn' = 0 /\ UNCHANGED <<lines, passes, tears, walk>>

\* A compaction is committed at the end of the Transcript, or only its first record is written.
RecordPass(committed) ==
  /\ lines # <<>> /\ ~OpenCall /\ Cardinality({passes[i].pass : i \in DOMAIN passes}) < MaxPasses
  /\ LET p == 1 + (IF passes = <<>> THEN 0 ELSE passes[Len(passes)].pass)
         summary == [pass |-> p, kind |-> "summary", position |-> NoPosition]
     IN passes' = passes \o <<summary>>
                    \o IF committed THEN <<[summary EXCEPT !.kind = "checkpoint", !.position = Len(lines)]>> ELSE <<>>
  /\ UNCHANGED <<lines, torn, tears, walk>>

(* The reader.  The size of the file, its lines and the Timeline are read one   *)
(* after the other.                                                             *)
LastShowable ==
  Max({0} \cup {Max(ToSet(UnitOf(t))) : t \in {u \in {lines[i].turn : i \in DOMAIN lines} : Complete(UnitOf(u))}})

FirstPage ==
  /\ walk.phase = "idle"
  /\ walk' = [NotWalking EXCEPT !.phase = "sized", !.size = Len(HistoryFile), !.due = LastShowable]
  /\ UNCHANGED <<lines, torn, passes, tears>>

\* A cursor must lie in both files.
OlderPage ==
  /\ walk.phase = "shown" /\ walk.page < MaxPages
  /\ walk' = [walk EXCEPT !.phase = IF walk.cursor.before <= Len(HistoryFile) /\ walk.cursor.timeline <= Len(passes)
                                      THEN "sized" ELSE "invalid",
                          !.size = Len(HistoryFile)]
  /\ UNCHANGED <<lines, torn, passes, tears>>

ReadUnits(size) ==
  /\ walk.phase = "sized"
  /\ LET end == IF walk.page = 0 THEN walk.size ELSE walk.cursor.before
         found == LinesBackwards(HistoryFile, end, walk.size, Block)
         read == UnitsBackwards(found, size)
         whole(l) == ToSet(l.text) \cap DOMAIN lines = {l.text[1]} /\ Len(l.text) = Width[l.text[1]]
     IN walk' = IF \E i \in DOMAIN found : ~whole(found[i]) THEN [walk EXCEPT !.phase = "corrupt"]
                ELSE [walk EXCEPT !.phase = "read", !.units = read.units, !.more = read.more, !.page = @ + 1]
  /\ UNCHANGED <<lines, torn, passes, tears>>

\* Mutant: the next page starts before the newest line of the oldest unit.
CursorOfNewest(units, next) ==
  LET u == units[Len(units)].lines
  IN [before |-> Len(FileOf([i \in 1..Max(ToSet(u)) - 1 |-> Width[i]], 0)), timeline |-> next]

CursorOf(units, next) == [before |-> units[Len(units)].start, timeline |-> next]

ReadNotices ==
  /\ walk.phase = "read"
  /\ LET units == Reverse(walk.units)
         end == IF walk.page = 1 THEN Len(passes) ELSE walk.cursor.timeline
         oldest == units[1].lines
         newest == units[Len(units)].lines
         read == NoticesBackwards(end, Head(oldest), Last(newest))
     IN walk' = IF units = <<>> THEN [walk EXCEPT !.phase = "all"]
                ELSE IF read.corrupt THEN [walk EXCEPT !.phase = "corrupt"]
                ELSE [walk EXCEPT !.phase = IF walk.more THEN "shown" ELSE "all",
                                  !.cursor = CursorOf(walk.units, read.next),
                                  !.shown = [i \in DOMAIN units |-> units[i].lines] \o @,
                                  !.notices = read.notices \o @,
                                  !.known = IF walk.page = 1 THEN Len(passes) ELSE @]
  /\ UNCHANGED <<lines, torn, passes, tears>>

PagesNext ==
  \/ \E kind \in {"note", "call", "result"}, t \in 1..MaxLines : WriteLine(kind, t)
  \/ \E n \in 1..Max(Range(Width)) : TearLine(n)
  \/ RepairLine
  \/ \E committed \in BOOLEAN : RecordPass(committed)
  \/ FirstPage \/ OlderPage \/ ReadNotices
  \/ \E size \in PageSizes : ReadUnits(size)

PagesSpec == PagesInit /\ [][PagesNext]_pagesVars

----------------------------------------------------------------------------
(* HistoryRead: the largest number of entries, from an offset of the range,    *)
(* whose envelope fits the budget, by bisection of the limit; 0 when none does *)
(* (then the tool refuses).                                                    *)
RangeCost(sizes, offset, n) == RangeFrame + FoldLeft(LAMBDA a, b : a + b, 0, SubSeq(sizes, offset + 1, Min({Len(sizes), offset + n})))

RangePage(sizes, offset, limit) ==
  LET try[low \in 1..limit + 1, high \in 0..limit, best \in 0..limit] ==
        LET middle == (low + high) \div 2
        IN IF low > high THEN best
           ELSE IF RangeCost(sizes, offset, middle) <= RangeBudget THEN try[middle + 1, high, middle]
           ELSE try[low, middle - 1, best]
  IN try[1, limit, 0]

----------------------------------------------------------------------------
(* The block-wise reader finds every complete line once, at its offset, before *)
(* every boundary and for every size of a block (session_files.py 1296).       *)
LinesAreExact ==
  \A widths \in UNION {[1..n -> 1..2] : n \in 0..3}, tear \in 0..2, block \in 1..4, last \in 0..3 :
    last <= Len(widths) =>
      LET file == FileOf(widths, tear)
          start(i) == Len(FileOf(SubSeq(widths, 1, i - 1), 0))
          end == IF last = Len(widths) THEN Len(file) ELSE start(last + 1)
      IN LinesBackwards(file, end, Len(file), block)
           = [k \in 1..last |-> [text |-> Copies(last + 1 - k, widths[last + 1 - k]), start |-> start(last + 1 - k)]]

\* HistoryRead gives as many entries as fit, and refuses only when not one does (history_read.py 250).
RangesAreExact ==
  \A sizes \in Ranges, limit \in 1..RangeLimit : \A offset \in 0..Len(sizes) :
    LET n == RangePage(sizes, offset, limit)
        fitting == {k \in 1..limit : RangeCost(sizes, offset, k) <= RangeBudget}
    IN n = Max({0} \cup fitting)

(* Page by page a reader is shown whole units in their order, without a gap    *)
(* or a repetition, from the newest that was complete when it began down to    *)
(* the first, though lines and compactions are written in between; and with    *)
(* them exactly the compactions that happened there.  No cursor becomes        *)
(* invalid, and no unfinished line is taken for a record (session_files.py 484).*)
PagesAreTheHistory ==
  /\ walk.phase \notin {"corrupt", "invalid"}
  /\ walk.shown # <<>> =>
       LET first == Head(Head(walk.shown))
           last == Last(Last(walk.shown))
           committed(i) == passes[i].kind = "checkpoint" /\ passes[i].position # NoPosition
       IN /\ FlattenSeq(walk.shown) = [i \in 1..last + 1 - first |-> first + i - 1]
          /\ \A i \in DOMAIN walk.shown :
               /\ Cardinality({lines[n].turn : n \in ToSet(walk.shown[i])}) = 1
               /\ Head(walk.shown[i]) = Head(UnitOf(lines[Head(walk.shown[i])].turn))
          /\ last >= walk.due
          /\ walk.phase = "all" => first = 1
          /\ walk.phase \in {"shown", "all"} =>
               walk.notices = SelectSeq([i \in 1..walk.known |-> i],
                                        LAMBDA i : committed(i) /\ passes[i].position \in first..last)
  /\ walk.phase = "all" /\ walk.shown = <<>> => walk.due = 0
=============================================================================
