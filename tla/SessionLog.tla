----------------------------- MODULE SessionLog -----------------------------
(***************************************************************************)
(* The Transcript of a Session as a sequence of entries (core/history.py)  *)
(* and the rule every append has to satisfy (_validate_transcript_append). *)
(*                                                                         *)
(* A message of the run is a small number of parts and each part becomes   *)
(* one entry.  The entries of a Turn are one semantic unit, because        *)
(* transcript_entries_from_message takes the turn's id for the unit's id.  *)
(* The n-th part of an assistant message with tool calls is answered by    *)
(* the n-th part of the message after it.                                  *)
(***************************************************************************)
EXTENDS Naturals, Sequences, FiniteSets

MessageKinds == {"text", "call", "result"}
EntryKinds   == MessageKinds \union {"failure"}

Parts == 2    \* bound: parts of a message

\* turn: the Turn the entry is filed under; msg, part: where it comes from.
Entry == [turn : Nat, msg : Nat, part : 0..Parts, kind : EntryKinds]

\* The entries of messages first..last of run, filed under turn t.
EntriesOf(run, t, first, last) ==
    [j \in 1..(Parts * ((last + 1) - first)) |->
        LET m == first + ((j - 1) \div Parts)
        IN  [turn |-> t, msg |-> m, part |-> ((j - 1) % Parts) + 1,
             kind |-> run[m].kind]]

FailureEntry(t) == [turn |-> t, msg |-> 0, part |-> 0, kind |-> "failure"]

\* ------------------------------------------------------- semantic units

Turns(log)   == {log[i].turn : i \in DOMAIN log}
Unit(log, t) == SelectSeq(log, LAMBDA e : e.turn = t)

OfKind(unit, kind) == SelectSeq(unit, LAMBDA e : e.kind = kind)

\* The call an entry makes or answers: its tool_call_id.
CallIds(unit) ==
    LET calls == OfKind(unit, "call")
    IN  {<<calls[i].msg, calls[i].part>> : i \in DOMAIN calls}
ResultIds(unit) ==
    LET results == OfKind(unit, "result")
    IN  {<<results[i].msg - 1, results[i].part>> : i \in DOMAIN results}

Distinct(unit) ==
    /\ Cardinality(CallIds(unit)) = Len(OfKind(unit, "call"))
    /\ Cardinality(ResultIds(unit)) = Len(OfKind(unit, "result"))

Complete(unit)    == Distinct(unit) /\ CallIds(unit) = ResultIds(unit)
Recoverable(unit) == /\ Distinct(unit)
                     /\ CallIds(unit) # {}
                     /\ ResultIds(unit) \subseteq CallIds(unit)

Incomplete(log) == {t \in Turns(log) : ~Complete(Unit(log, t))}

\* At most the last unit is incomplete, and only for missing results.
OnlyTailOpen(log) ==
    \A t \in Incomplete(log) : /\ t = log[Len(log)].turn
                               /\ Recoverable(Unit(log, t))

\* ------------------------------------------------------------ validation

\* After an open unit only its missing results may follow, each once.
ClosesTail(log, es) ==
    \A t \in Incomplete(log) :
        /\ \A i \in DOMAIN es : es[i].kind = "result" /\ es[i].turn = t
        /\ ResultIds(es) \subseteq CallIds(Unit(log, t)) \ ResultIds(Unit(log, t))
        /\ Distinct(es)

ValidAppend(log, es) ==
    /\ OnlyTailOpen(log)
    /\ ClosesTail(log, es)
    /\ OnlyTailOpen(log \o es)
=============================================================================
